---- MODULE Spec2Model ----
(***************************************************************************)
(* Session selection and bulk-delete controller of the session list view.  *)
(*                                                                         *)
(*   web/src/components/SessionList.tsx      selectionReducer, SessionList *)
(*   hooks/mutations/useSessionActions       useBulkSessionActions         *)
(*                                                                         *)
(* React scheduling as modelled here: a handler's dispatches are applied   *)
(* by the reducer in one commit; the passive effects whose dependencies    *)
(* changed in that commit (the reconciliation useEffect) are flushed       *)
(* before the next update is processed, so while effectPending holds the   *)
(* only step is ReconcileEffect.  An async handler is one step up to its   *)
(* await and one step per resumption.                                      *)
(*                                                                         *)
(* Besides the controller (Spec, SpecModal, SpecApi) and the orchestrator  *)
(* (SpecBulk, SpecBulkExit) the module holds the single-session mutations  *)
(* of useSessionActions (SpecActions) and the pure functions of the view:  *)
(* groupSessionsByDirectory (SpecGroup, SpecOrder), getGroupDisplayName    *)
(* (SpecName) and formatRelativeTime (SpecTime, SpecNormalize), the       *)
(* reducer alone (SpecReducer), the settlement order of a run              *)
(* (SpecSettle), the collapse overrides of the groups (SpecCollapse) and   *)
(* a confirm handler invoked twice (SpecDouble).  Each specification moves *)
(* its own variables and leaves the others at rest.                        *)
(*                                                                         *)
(* Session ids are opaque; they are the numbers 1..NumIds.  Array.from of  *)
(* the selected-id Set is taken in ascending id order: nothing in the      *)
(* orchestrator or the controller depends on which id sits at which        *)
(* position, only on the positions themselves.                             *)
(***************************************************************************)
EXTENDS Integers, Sequences, FiniteSets, TLC

\* Bounds of the model.
NumIds == 3          \* session ids known to the controller specification
NumDirs == 2         \* working directories (group keys) sessions live in
MaxBulk == 12        \* longest id list handed to the orchestrator in SpecBulk
MaxSettle == 6       \* longest id list of a run whose settlement order is recorded
MaxSessions == 3     \* longest session collection handed to the grouping engine
MaxPathLen == 5      \* longest enumerated group key handed to getGroupDisplayName
MaxAge == 7          \* greatest age of a timestamp, in each of seconds .. days
MaxIdsLen == 3       \* longest sessionIds array of a reducer action

\* const limit = 5
limit == 5

VARIABLES
    sessions,              \* props.sessions: id -> "absent" | "inactive" | "active"
    selectionState,        \* useReducer state: [selectionMode, selectedIds]
    bulkDeleteDialogOpen,  \* useState(false)
    effectPending,         \* the reconciliation effect is scheduled, not yet flushed
    run,                   \* the bulkDeleteMutation in flight (or IdleRun)
    toast,                 \* the notification emitted by the latest step, or NoToast
    api,                   \* props.api: "present" | "null"
    mutation,              \* the latest useSessionActions mutation (or IdleMutation)
    input,                 \* argument handed to a pure function of the view
    output,                \* what that function returned (or NoOutput)
    collapseOverrides,     \* useState(() => new Map()): directory -> collapsed
    pruneEffectPending,    \* the effect pruning the overrides is scheduled
    secondRun              \* a bulkDeleteMutation started while run is in flight

vars == <<sessions, selectionState, bulkDeleteDialogOpen, effectPending, run, toast,
          api, mutation, input, output, collapseOverrides, pruneEffectPending, secondRun>>

\* What the selection controller never writes.
others == <<api, mutation, input, output, collapseOverrides, pruneEffectPending, secondRun>>

\* new Map(): no directory has an override.
NoOverrides == [directory \in {} |-> FALSE]

Ids == 1..NumIds
SessionStatus == {"absent", "inactive", "active"}

\* addToast({title, body}): the title key and the count n of the body.
NoToast == [title |-> "none", n |-> 0]

\* useSessionActions(api, sessionId, agentFlavor) before any of its mutations
\* has run: the hook's arguments and the state of its latest mutation.
NoMutation(sessionId, agentFlavor) ==
    [sessionId |-> sessionId, agentFlavor |-> agentFlavor,
     kind |-> "none", arg |-> "none", phase |-> "idle", error |-> "none",
     calls |-> <<>>, invalidated |-> <<>>, removed |-> FALSE, cleared |-> FALSE]

IdleMutation == NoMutation("s", "known")

\* No pure function has been applied.
NoInput == <<>>
NoOutput == [kind |-> "none"]

----------------------------------------------------------------------------
\* Generic helpers.

Range(s) == {s[k] : k \in DOMAIN s}

Min(a, b) == IF a < b THEN a ELSE b

\* Array.from(set) / [...set]: the elements as an array without repeats.
RECURSIVE ArrayFrom(_)
ArrayFrom(S) ==
    IF S = {} THEN <<>>
    ELSE LET m == CHOOSE x \in S : \A y \in S : x <= y
         IN  <<m>> \o ArrayFrom(S \ {m})

\* array.slice(a, b) with 0-based a, b (b exclusive, clamped to the length).
Slice(s, a, b) == SubSeq(s, a + 1, Min(b, Len(s)))

----------------------------------------------------------------------------
\* selectionReducer (SessionList.tsx 28-56).

EnterAction == [type |-> "ENTER_SELECTION_MODE"]
ExitAction == [type |-> "EXIT_SELECTION_MODE"]
ClearAction == [type |-> "CLEAR_SELECTION"]
ToggleAction(id) == [type |-> "TOGGLE_SESSION", sessionId |-> id]
SelectAllAction(ids) == [type |-> "SELECT_ALL", sessionIds |-> ids]
SetSelectionAction(ids) == [type |-> "SET_SELECTION", sessionIds |-> ids]

\* Faulty variant: SELECT_ALL adds to the previous selection.
selectionReducer_Merge(state, action) ==
    CASE action.type = "ENTER_SELECTION_MODE" ->
            [state EXCEPT !.selectionMode = TRUE]
      [] action.type = "EXIT_SELECTION_MODE" ->
            [selectionMode |-> FALSE, selectedIds |-> {}]
      [] action.type = "TOGGLE_SESSION" ->
            IF action.sessionId \in state.selectedIds
            THEN [state EXCEPT !.selectedIds = @ \ {action.sessionId}]
            ELSE [state EXCEPT !.selectedIds = @ \cup {action.sessionId}]
      [] action.type = "SELECT_ALL" ->
            [state EXCEPT !.selectedIds = @ \cup Range(action.sessionIds)]
      [] action.type = "SET_SELECTION" ->
            [state EXCEPT !.selectedIds = Range(action.sessionIds)]
      [] action.type = "CLEAR_SELECTION" ->
            [state EXCEPT !.selectedIds = {}]
      [] OTHER -> state

selectionReducer(state, action) ==
    CASE action.type = "ENTER_SELECTION_MODE" ->
            [state EXCEPT !.selectionMode = TRUE]
      [] action.type = "EXIT_SELECTION_MODE" ->
            [selectionMode |-> FALSE, selectedIds |-> {}]
      [] action.type = "TOGGLE_SESSION" ->
            IF action.sessionId \in state.selectedIds
            THEN [state EXCEPT !.selectedIds = @ \ {action.sessionId}]
            ELSE [state EXCEPT !.selectedIds = @ \cup {action.sessionId}]
      [] action.type = "SELECT_ALL" ->
            [state EXCEPT !.selectedIds = Range(action.sessionIds)]
      [] action.type = "SET_SELECTION" ->
            [state EXCEPT !.selectedIds = Range(action.sessionIds)]
      [] action.type = "CLEAR_SELECTION" ->
            [state EXCEPT !.selectedIds = {}]
      [] OTHER -> state

\* Several dispatches of one handler, applied in order.
RECURSIVE DispatchAll(_, _)
DispatchAll(state, actions) ==
    IF actions = <<>> THEN state
    ELSE DispatchAll(selectionReducer(state, Head(actions)), Tail(actions))

----------------------------------------------------------------------------
\* Derived values of one render of SessionList (SessionList.tsx 478-502).

\* The directory a session is grouped under (metadata path); fixed per id.
DirOf(id) == ((id - 1) % NumDirs) + 1

PresentIds == {id \in DOMAIN sessions : sessions[id] # "absent"}

selectableSessionIds ==
    ArrayFrom({id \in PresentIds : sessions[id] # "active"})

selectedCount == Cardinality(selectionState.selectedIds)
selectableCount == Len(selectableSessionIds)
\* Faulty variant: no test that anything is selectable.
isAllSelected_CountsOnly == selectedCount = selectableCount

isAllSelected == selectableCount > 0 /\ selectedCount = selectableCount
isIndeterminate == selectedCount > 0 /\ selectedCount < selectableCount
hasSelection == selectionState.selectionMode /\ selectedCount > 0

isBulkDeleting == run.phase # "idle"

\* Every handler below runs on a committed render: pending effects flushed.
Committed == ~effectPending

----------------------------------------------------------------------------
\* useBulkSessionActions: bulkDeleteMutation (useSessionActions 127-172).
\*
\* run.status[k] is the state of the promise api.deleteSession(ids[k]):
\* "unissued" (not called yet), "pending", "fulfilled" or "rejected".
\* run.batches is the log of the batches handed to Promise.allSettled, in
\* issue order; evicted, cleared and refreshes log the cache calls of onSuccess.
\* The text of a rejection (reason.message || String(reason)) is not followed:
\* every failed entry carries the same error text.

IdleRun ==
    [phase |-> "idle", ids |-> <<>>, i |-> 0, status |-> <<>>, batches |-> <<>>,
     succeeded |-> <<>>, failed |-> <<>>,
     evicted |-> {}, cleared |-> {}, refreshes |-> 0, error |-> "none"]

\* The positions (1-based) of sessionIds.slice(i, i + limit).
BatchPositions(r) == (r.i + 1)..Min(r.i + limit, Len(r.ids))

\* Faulty variant: every remaining call is issued at once (no chunking).
IssueBatch_All(r) ==
    [r EXCEPT !.phase = "deleting",
              !.status = [k \in DOMAIN r.status |->
                            IF k > r.i THEN "pending" ELSE r.status[k]],
              !.batches = Append(@, Slice(r.ids, r.i, Len(r.ids)))]

\* batch.map(id => api.deleteSession(id)): every call of the batch is issued.
IssueBatch(r) ==
    [r EXCEPT !.phase = "deleting",
              !.status = [k \in DOMAIN r.status |->
                            IF k \in BatchPositions(r) THEN "pending" ELSE r.status[k]],
              !.batches = Append(@, Slice(r.ids, r.i, r.i + limit))]

\* Faulty variant: onSuccess evicts every submitted id, failed ones included.
OnSuccess_EvictAll(r) ==
    [r EXCEPT !.phase = "invalidating",
              !.evicted = @ \cup Range(r.ids),
              !.cleared = @ \cup Range(r.ids),
              !.refreshes = @ + 1]

\* onSuccess: evict and clear every succeeded id, then invalidate the collection.
OnSuccess(r) ==
    [r EXCEPT !.phase = "invalidating",
              !.evicted = @ \cup Range(r.succeeded),
              !.cleared = @ \cup Range(r.succeeded),
              !.refreshes = @ + 1]

\* Faulty variant: the loop is left one batch early.
LoopTest_OneBatchEarly(r) == IF r.i + limit < Len(r.ids) THEN IssueBatch(r) ELSE OnSuccess(r)

\* for (...; i < sessionIds.length; ...): the next batch, or return and onSuccess.
LoopTest(r) == IF r.i < Len(r.ids) THEN IssueBatch(r) ELSE OnSuccess(r)

\* Faulty variant: the batch is awaited with a race, done at the first settlement.
AllSettled_Any(r) ==
    \E k \in BatchPositions(r) : r.status[k] \in {"fulfilled", "rejected"}

\* Promise.allSettled(batch) resolves: every promise of the batch has settled.
AllSettled(r) ==
    \A k \in BatchPositions(r) : r.status[k] \in {"fulfilled", "rejected"}

\* Faulty variant: the succeeded list is built back to front.
RECURSIVE ForEachResult_Unshift(_, _, _)
ForEachResult_Unshift(r, k, hi) ==
    IF k > hi THEN r
    ELSE ForEachResult_Unshift(
            IF r.status[k] = "fulfilled"
            THEN [r EXCEPT !.succeeded = <<r.ids[k]>> \o @]
            ELSE [r EXCEPT !.failed =
                      Append(@, [id |-> r.ids[k], error |-> "error"])],
            k + 1, hi)

\* Faulty variant: the results are classified as the promises settle (a then
\* on each promise), the promise settling last being classified last.
RECURSIVE ClassifyEach(_, _)
ClassifyEach(r, positions) ==
    IF positions = <<>> THEN r
    ELSE ClassifyEach(
            IF r.status[Head(positions)] = "fulfilled"
            THEN [r EXCEPT !.succeeded = Append(@, r.ids[Head(positions)])]
            ELSE [r EXCEPT !.failed =
                      Append(@, [id |-> r.ids[Head(positions)], error |-> "error"])],
            Tail(positions))

ForEachResult_CompletionOrder(r, k, hi) ==
    LET logged == SelectSeq(output.order, LAMBDA p : p \in k..hi)
    IN  ClassifyEach(r, logged \o ArrayFrom((k..hi) \ Range(logged)))

\* results.forEach((result, index) => ...), over positions k..hi of the batch.
RECURSIVE ForEachResult(_, _, _)
ForEachResult(r, k, hi) ==
    IF k > hi THEN r
    ELSE ForEachResult(
            IF r.status[k] = "fulfilled"
            THEN [r EXCEPT !.succeeded = Append(@, r.ids[k])]
            ELSE [r EXCEPT !.failed =
                      Append(@, [id |-> r.ids[k], error |-> "error"])],
            k + 1, hi)

\* Faulty variant: fail-fast, the loop is left at the first batch with a rejection.
AfterBatch_FailFast(r) ==
    LET c == ForEachResult(r, r.i + 1, Min(r.i + limit, Len(r.ids)))
    IN  IF \E k \in BatchPositions(r) : r.status[k] = "rejected"
        THEN OnSuccess(c)
        ELSE LoopTest([c EXCEPT !.i = @ + limit])

\* The loop body after its await, then i += limit and the loop test.
AfterBatch(r) ==
    LET c == ForEachResult(r, r.i + 1, Min(r.i + limit, Len(r.ids)))
    IN  LoopTest([c EXCEPT !.i = @ + limit])

\* mutationFn(sessionIds) with an api present, up to its first await.
StartRun(ids) ==
    LoopTest([phase |-> "deleting", ids |-> ids, i |-> 0,
              status |-> [k \in 1..Len(ids) |-> "unissued"], batches |-> <<>>,
              succeeded |-> <<>>, failed |-> <<>>,
              evicted |-> {}, cleared |-> {}, refreshes |-> 0, error |-> "none"])

\* mutationFn(sessionIds): without an api it throws before its loop, the
\* mutation ends in its error state (not pending, onSuccess not run) and
\* mutateAsync rejects.
mutationFn_NoApiCheck(sessionIds) == StartRun(sessionIds)

mutationFn(sessionIds) ==
    IF api = "null" THEN [IdleRun EXCEPT !.error = "API unavailable"]
    ELSE StartRun(sessionIds)

\* The api.deleteSession calls made so far, in call order.
RECURSIVE Flatten(_)
Flatten(ss) == IF ss = <<>> THEN <<>> ELSE Head(ss) \o Flatten(Tail(ss))

Calls(r) == Flatten(r.batches)

InFlight(r) == {k \in DOMAIN r.status : r.status[k] = "pending"}
FailedIds(r) == {r.failed[k].id : k \in DOMAIN r.failed}
SucceededIds(r) == Range(r.succeeded)

----------------------------------------------------------------------------
\* Handlers of SessionList.

\* What a handler's dispatches do to the reducer state and to the effect
\* schedule: every action but ENTER_SELECTION_MODE makes a new selectedIds
\* Set, a dependency of the reconciliation effect.
NewSelectedIds(actions) ==
    \E k \in DOMAIN actions : actions[k].type # "ENTER_SELECTION_MODE"

Dispatch(actions) ==
    /\ selectionState' = DispatchAll(selectionState, actions)
    /\ effectPending' = (effectPending \/ NewSelectedIds(actions))

\* handleEnterSelectionMode from the header button (rendered when not selecting).
EnterButton ==
    /\ Committed
    /\ ~selectionState.selectionMode
    /\ Dispatch(<<EnterAction>>)
    /\ toast' = NoToast
    /\ UNCHANGED others
    /\ UNCHANGED <<sessions, bulkDeleteDialogOpen, run>>

\* selectionApiRef.current.enterSelectionMode(): the parent may call it any time.
ApiEnter ==
    /\ Committed
    /\ Dispatch(<<EnterAction>>)
    /\ toast' = NoToast
    /\ UNCHANGED others
    /\ UNCHANGED <<sessions, bulkDeleteDialogOpen, run>>

handleExitSelectionMode_Cancels ==
    /\ bulkDeleteDialogOpen' = FALSE
    /\ Dispatch(<<ExitAction>>)
    /\ run' = IdleRun
    /\ toast' = NoToast
    /\ UNCHANGED others
    /\ UNCHANGED sessions

\* handleExitSelectionMode (514-517).
handleExitSelectionMode ==
    /\ bulkDeleteDialogOpen' = FALSE
    /\ Dispatch(<<ExitAction>>)
    /\ toast' = NoToast
    /\ UNCHANGED others
    /\ UNCHANGED <<sessions, run>>

\* The X button: rendered in selection mode, disabled while isBulkDeleting.
ExitButton ==
    /\ Committed
    /\ selectionState.selectionMode
    /\ ~isBulkDeleting
    /\ handleExitSelectionMode

EscapeKey_Ungated ==
    /\ Committed
    /\ selectionState.selectionMode
    /\ handleExitSelectionMode

\* The Escape listener: installed in selection mode, returns while isBulkDeleting.
EscapeKey ==
    /\ Committed
    /\ selectionState.selectionMode
    /\ ~isBulkDeleting
    /\ handleExitSelectionMode

\* selectionApiRef.current.exitSelectionMode(): no guard at all.
ApiExit ==
    /\ Committed
    /\ handleExitSelectionMode

\* Faulty variant: the row toggles an active session too.
ToggleSession_ActiveToo(id) ==
    /\ Committed
    /\ id \in PresentIds
    /\ selectionState.selectionMode
    /\ Dispatch(<<ToggleAction(id)>>)
    /\ toast' = NoToast
    /\ UNCHANGED others
    /\ UNCHANGED <<sessions, bulkDeleteDialogOpen, run>>

\* Row click, Space key or row checkbox of a session item (283-310, 323-328):
\* toggles only in selection mode and only a non-active session.
ToggleSession(id) ==
    /\ Committed
    /\ id \in PresentIds
    /\ selectionState.selectionMode
    /\ sessions[id] # "active"
    /\ Dispatch(<<ToggleAction(id)>>)
    /\ toast' = NoToast
    /\ UNCHANGED others
    /\ UNCHANGED <<sessions, bulkDeleteDialogOpen, run>>

\* handleSelectAll (571-577): the header checkbox, disabled when nothing is selectable.
handleSelectAll ==
    /\ Committed
    /\ selectionState.selectionMode
    /\ selectableCount > 0
    /\ Dispatch(IF isAllSelected THEN <<ClearAction>>
                ELSE <<SelectAllAction(selectableSessionIds)>>)
    /\ toast' = NoToast
    /\ UNCHANGED others
    /\ UNCHANGED <<sessions, bulkDeleteDialogOpen, run>>

\* The header "deselect all" button, rendered when selectedCount > 0.
ClearButton ==
    /\ Committed
    /\ selectionState.selectionMode
    /\ selectedCount > 0
    /\ Dispatch(<<ClearAction>>)
    /\ toast' = NoToast
    /\ UNCHANGED others
    /\ UNCHANGED <<sessions, bulkDeleteDialogOpen, run>>

\* Group checkbox (789-820).
groupSelectableSessionIds(dir) ==
    IF selectionState.selectionMode
    THEN ArrayFrom({id \in PresentIds : DirOf(id) = dir /\ sessions[id] # "active"})
    ELSE <<>>

groupSelectedCount(dir) ==
    IF selectionState.selectionMode
    THEN Cardinality(Range(groupSelectableSessionIds(dir)) \cap selectionState.selectedIds)
    ELSE 0

groupAllSelected(dir) ==
    /\ Len(groupSelectableSessionIds(dir)) > 0
    /\ groupSelectedCount(dir) = Len(groupSelectableSessionIds(dir))

nextSelectedIds_GroupOnly(dir) ==
    IF groupAllSelected(dir) THEN {}
    ELSE Range(groupSelectableSessionIds(dir))

nextSelectedIds(dir) ==
    IF groupAllSelected(dir)
    THEN selectionState.selectedIds \ Range(groupSelectableSessionIds(dir))
    ELSE selectionState.selectedIds \cup Range(groupSelectableSessionIds(dir))

GroupToggle(dir) ==
    /\ Committed
    /\ selectionState.selectionMode
    /\ Len(groupSelectableSessionIds(dir)) > 0
    /\ Dispatch(<<SetSelectionAction(ArrayFrom(nextSelectedIds(dir)))>>)
    /\ toast' = NoToast
    /\ UNCHANGED others
    /\ UNCHANGED <<sessions, bulkDeleteDialogOpen, run>>

\* handleBulkDelete (534-536), reached from a session item's action menu when
\* bulkDeleteEnabled = selectionMode && selectedIds.size > 0 (395-402, 860).
handleBulkDelete ==
    /\ Committed
    /\ PresentIds # {}
    /\ hasSelection
    /\ bulkDeleteDialogOpen' = TRUE
    /\ toast' = NoToast
    /\ UNCHANGED others
    /\ UNCHANGED <<sessions, selectionState, effectPending, run>>

\* ConfirmDialog onClose (873-876).
CloseDialog ==
    /\ Committed
    /\ bulkDeleteDialogOpen
    /\ ~isBulkDeleting
    /\ bulkDeleteDialogOpen' = FALSE
    /\ toast' = NoToast
    /\ UNCHANGED others
    /\ UNCHANGED <<sessions, selectionState, effectPending, run>>

\* The confirm button of ConfirmDialog: shown while the dialog is open and
\* disabled while isPending.
ConfirmEnabled == bulkDeleteDialogOpen /\ ~isBulkDeleting

\* handleConfirmBulkDelete up to its await (538-540); when deleteSessions
\* rejects, the handler rejects at the await and runs no further.
ConfirmBulkDelete ==
    /\ Committed
    /\ ConfirmEnabled
    /\ run' = mutationFn(ArrayFrom(selectionState.selectedIds))
    /\ toast' = NoToast
    /\ UNCHANGED others
    /\ UNCHANGED <<sessions, selectionState, bulkDeleteDialogOpen, effectPending>>

\* One api.deleteSession promise settles; when it is the last of its batch,
\* allSettled resolves and mutationFn runs on to its next await.
Settle(k, outcome) ==
    /\ Committed
    /\ run.phase = "deleting"
    /\ k \in InFlight(run)
    /\ LET r == [run EXCEPT !.status[k] = outcome]
       IN  run' = IF AllSettled(r) THEN AfterBatch(r) ELSE r
    /\ toast' = NoToast
    /\ UNCHANGED others
    /\ UNCHANGED <<sessions, selectionState, bulkDeleteDialogOpen, effectPending>>

\* Faulty variant: on all-success the selection is cleared but the mode is kept.
confirmDispatches_NoExit(succeeded, failed) ==
    IF Len(failed) = 0 THEN <<ClearAction>>
    ELSE IF Len(succeeded) = 0 THEN <<>>
    ELSE <<ClearAction,
           SelectAllAction([k \in DOMAIN failed |-> failed[k].id])>>

\* Faulty variant: on all-failed the selection is cleared.
confirmDispatches_ClearOnAllFailed(succeeded, failed) ==
    IF Len(failed) = 0 THEN <<ExitAction>>
    ELSE IF Len(succeeded) = 0 THEN <<ClearAction>>
    ELSE <<ClearAction,
           SelectAllAction([k \in DOMAIN failed |-> failed[k].id])>>

\* handleConfirmBulkDelete after its await (542-568): the dispatches ...
confirmDispatches(succeeded, failed) ==
    IF Len(failed) = 0 THEN <<ExitAction>>
    ELSE IF Len(succeeded) = 0 THEN <<>>
    ELSE <<ClearAction,
           SelectAllAction([k \in DOMAIN failed |-> failed[k].id])>>

\* ... and the toast.
confirmToast(succeeded, failed) ==
    IF Len(failed) = 0 THEN [title |-> "toastSuccessTitle", n |-> Len(succeeded)]
    ELSE IF Len(succeeded) = 0 THEN [title |-> "toastAllFailedTitle", n |-> Len(failed)]
    ELSE [title |-> "toastPartialFailedTitle", n |-> Len(failed)]

\* invalidateQueries resolves, the mutation is no longer pending, mutateAsync
\* resolves and handleConfirmBulkDelete resumes.
BulkSettled ==
    /\ Committed
    /\ run.phase = "invalidating"
    /\ Dispatch(confirmDispatches(run.succeeded, run.failed))
    /\ toast' = confirmToast(run.succeeded, run.failed)
    /\ UNCHANGED others
    /\ bulkDeleteDialogOpen' = FALSE
    /\ run' = IdleRun
    /\ UNCHANGED sessions

\* props.sessions changes (refetch): selectableSessionIds is recomputed, which
\* schedules the reconciliation effect.
SessionsChange(new) ==
    /\ Committed
    /\ new # sessions
    /\ sessions' = new
    /\ effectPending' = TRUE
    /\ toast' = NoToast
    /\ UNCHANGED others
    /\ UNCHANGED <<selectionState, bulkDeleteDialogOpen, run>>

\* Faulty variant: ids are kept when their session is present, active or not.
validSelectedIds_KeepsActive ==
    ArrayFrom({id \in selectionState.selectedIds : id \in PresentIds})

\* The reconciliation useEffect (586-596).
validSelectedIds ==
    ArrayFrom({id \in selectionState.selectedIds : id \in Range(selectableSessionIds)})

\* Faulty variant: the effect clears and never re-selects the valid ids.
reconcileDispatches_ClearOnly ==
    IF selectedCount = 0 THEN <<>>
    ELSE IF Len(validSelectedIds) = selectedCount THEN <<>>
    ELSE <<ClearAction>>

reconcileDispatches ==
    IF selectedCount = 0 THEN <<>>
    ELSE IF Len(validSelectedIds) = selectedCount THEN <<>>
    ELSE IF Len(validSelectedIds) > 0
         THEN <<ClearAction, SelectAllAction(validSelectedIds)>>
         ELSE <<ClearAction>>

ReconcileEffect ==
    /\ effectPending
    /\ selectionState' = DispatchAll(selectionState, reconcileDispatches)
    /\ effectPending' = NewSelectedIds(reconcileDispatches)
    /\ toast' = NoToast
    /\ UNCHANGED others
    /\ UNCHANGED <<sessions, bulkDeleteDialogOpen, run>>

----------------------------------------------------------------------------
\* The controller: every handler, external change and promise settlement.

Init ==
    /\ sessions \in [Ids -> SessionStatus]
    /\ selectionState = [selectionMode |-> FALSE, selectedIds |-> {}]
    /\ bulkDeleteDialogOpen = FALSE
    /\ effectPending = FALSE
    /\ run = IdleRun
    /\ toast = NoToast
    /\ api = "present"
    /\ mutation = IdleMutation
    /\ input = NoInput
    /\ collapseOverrides = NoOverrides
    /\ pruneEffectPending = FALSE
    /\ secondRun = IdleRun
    /\ output = NoOutput

Next ==
    \/ EnterButton
    \/ ApiEnter
    \/ ExitButton
    \/ EscapeKey
    \/ ApiExit
    \/ \E id \in Ids : ToggleSession(id)
    \/ handleSelectAll
    \/ ClearButton
    \/ \E dir \in 1..NumDirs : GroupToggle(dir)
    \/ handleBulkDelete
    \/ CloseDialog
    \/ ConfirmBulkDelete
    \/ \E k \in DOMAIN run.status, outcome \in {"fulfilled", "rejected"} : Settle(k, outcome)
    \/ BulkSettled
    \/ \E new \in [Ids -> SessionStatus] : SessionsChange(new)
    \/ ReconcileEffect

Spec == Init /\ [][Next]_vars

\* The same controller with the confirmation dialog taken as modal: while it is
\* open the list behind it takes no pointer or keyboard input, so only the
\* dialog's own buttons, the parent's selectionApiRef calls, collection
\* changes, promise settlements and effects happen.  Every behaviour of
\* SpecModal is a behaviour of Spec.
ListFree == ~bulkDeleteDialogOpen

NextModal ==
    \/ ListFree /\ EnterButton
    \/ ListFree /\ ExitButton
    \/ ListFree /\ EscapeKey
    \/ ListFree /\ \E id \in Ids : ToggleSession(id)
    \/ ListFree /\ handleSelectAll
    \/ ListFree /\ ClearButton
    \/ ListFree /\ \E dir \in 1..NumDirs : GroupToggle(dir)
    \/ ListFree /\ handleBulkDelete
    \/ ApiEnter
    \/ ApiExit
    \/ CloseDialog
    \/ ConfirmBulkDelete
    \/ \E k \in DOMAIN run.status, outcome \in {"fulfilled", "rejected"} : Settle(k, outcome)
    \/ BulkSettled
    \/ \E new \in [Ids -> SessionStatus] : SessionsChange(new)
    \/ ReconcileEffect

SpecModal == Init /\ [][NextModal]_vars

----------------------------------------------------------------------------
\* The controller under an api prop that may be null (no client yet) and may
\* change between renders; the session collection is any collection, fixed.

\* props.api changes; a mutationFn already running keeps the api it captured.
ApiChange(new) ==
    /\ Committed
    /\ new # api
    /\ api' = new
    /\ toast' = NoToast
    /\ UNCHANGED <<sessions, selectionState, bulkDeleteDialogOpen, effectPending, run,
                   mutation, input, output, collapseOverrides, pruneEffectPending, secondRun>>

InitApi ==
    /\ sessions \in [Ids -> SessionStatus]
    /\ selectionState = [selectionMode |-> FALSE, selectedIds |-> {}]
    /\ bulkDeleteDialogOpen = FALSE
    /\ effectPending = FALSE
    /\ run = IdleRun
    /\ toast = NoToast
    /\ api \in {"present", "null"}
    /\ mutation = IdleMutation
    /\ input = NoInput
    /\ collapseOverrides = NoOverrides
    /\ pruneEffectPending = FALSE
    /\ secondRun = IdleRun
    /\ output = NoOutput

NextApi ==
    \/ EnterButton
    \/ ApiEnter
    \/ ExitButton
    \/ EscapeKey
    \/ ApiExit
    \/ \E id \in Ids : ToggleSession(id)
    \/ handleSelectAll
    \/ ClearButton
    \/ \E dir \in 1..NumDirs : GroupToggle(dir)
    \/ handleBulkDelete
    \/ CloseDialog
    \/ ConfirmBulkDelete
    \/ \E k \in DOMAIN run.status, outcome \in {"fulfilled", "rejected"} : Settle(k, outcome)
    \/ BulkSettled
    \/ \E new \in {"present", "null"} : ApiChange(new)
    \/ ReconcileEffect

SpecApi == InitApi /\ [][NextApi]_vars

----------------------------------------------------------------------------
\* The orchestrator alone: a selection of n ids, all selectable, is confirmed
\* and the run is followed to the end of its result handling.

BulkIds == 1..MaxBulk

InitBulk ==
    /\ sessions = [id \in BulkIds |-> "inactive"]
    /\ \E n \in 0..MaxBulk :
          selectionState = [selectionMode |-> TRUE, selectedIds |-> 1..n]
    /\ bulkDeleteDialogOpen = TRUE
    /\ effectPending = FALSE
    /\ run = IdleRun
    /\ toast = NoToast
    /\ api = "present"
    /\ mutation = IdleMutation
    /\ input = NoInput
    /\ collapseOverrides = NoOverrides
    /\ pruneEffectPending = FALSE
    /\ secondRun = IdleRun
    /\ output = NoOutput

NextBulk ==
    \/ ConfirmBulkDelete
    \/ \E k \in DOMAIN run.status, outcome \in {"fulfilled", "rejected"} : Settle(k, outcome)
    \/ BulkSettled
    \/ ReconcileEffect

SpecBulk == InitBulk /\ [][NextBulk]_vars

\* The orchestrator with the order in which its promises settle on record:
\* output.order lists the positions of the calls settled so far.
NoneSettled == [kind |-> "settled", order |-> <<>>]

InitSettle ==
    /\ sessions = [id \in BulkIds |-> "inactive"]
    /\ \E n \in 0..MaxSettle :
          selectionState = [selectionMode |-> TRUE, selectedIds |-> 1..n]
    /\ bulkDeleteDialogOpen = TRUE
    /\ effectPending = FALSE
    /\ run = IdleRun
    /\ toast = NoToast
    /\ api = "present"
    /\ mutation = IdleMutation
    /\ input = NoInput
    /\ collapseOverrides = NoOverrides
    /\ pruneEffectPending = FALSE
    /\ secondRun = IdleRun
    /\ output = NoneSettled

\* Settle(k, outcome), and the record of it.
SettleInOrder(k, outcome) ==
    /\ Committed
    /\ run.phase = "deleting"
    /\ k \in InFlight(run)
    /\ LET r == [run EXCEPT !.status[k] = outcome]
       IN  run' = IF AllSettled(r) THEN AfterBatch(r) ELSE r
    /\ output' = [output EXCEPT !.order = Append(@, k)]
    /\ toast' = NoToast
    /\ UNCHANGED <<sessions, selectionState, bulkDeleteDialogOpen, effectPending,
                   api, mutation, input, collapseOverrides, pruneEffectPending, secondRun>>

NextSettle ==
    \/ ConfirmBulkDelete
    \/ \E k \in DOMAIN run.status, outcome \in {"fulfilled", "rejected"} :
          SettleInOrder(k, outcome)
    \/ BulkSettled
    \/ ReconcileEffect

SpecSettle == InitSettle /\ [][NextSettle]_vars

\* The orchestrator with the parent free to call
\* selectionApiRef.current.exitSelectionMode() at any moment of the run.
NextBulkExit ==
    \/ ConfirmBulkDelete
    \/ \E k \in DOMAIN run.status, outcome \in {"fulfilled", "rejected"} : Settle(k, outcome)
    \/ BulkSettled
    \/ ReconcileEffect
    \/ ApiExit

SpecBulkExit == InitBulk /\ [][NextBulkExit]_vars

----------------------------------------------------------------------------
\* useSessionActions: the seven single-session mutations of one hook instance,
\* followed one mutation at a time.  A mutation is one step up to its remote
\* call (or to the throw of its mutationFn) and one step when the call settles.

Kinds == {"abort", "archive", "switch", "permission", "model", "rename", "delete"}

\* What the policy of @hapi/protocol says of the mode handed to
\* setPermissionMode for the session's flavor; other mutations' arguments play
\* no part in what the hook does.
Args(kind) == IF kind = "permission" THEN {"allowed", "disallowed"} ELSE {"none"}

Unavailable_ApiOnly == api = "null"

\* !api || !sessionId
Unavailable == api = "null" \/ mutation.sessionId = "null"

\* Faulty variant: the policy is applied to unknown flavors too.
InvalidMode_AnyFlavor(kind, arg) ==
    kind = "permission" /\ arg = "disallowed"

\* isKnownFlavor(agentFlavor) && !isPermissionModeAllowedForFlavor(mode, agentFlavor)
InvalidMode(kind, arg) ==
    kind = "permission" /\ mutation.agentFlavor = "known" /\ arg = "disallowed"

\* mutateAsync(arg) of the kind's mutation, up to the await in its mutationFn.
Mutate(kind, arg) ==
    /\ mutation.phase # "pending"
    /\ LET fresh == [NoMutation(mutation.sessionId, mutation.agentFlavor)
                        EXCEPT !.kind = kind, !.arg = arg]
       IN  mutation' =
              IF Unavailable
              THEN [fresh EXCEPT !.phase = "error", !.error = "Session unavailable"]
              ELSE IF InvalidMode(kind, arg)
              THEN [fresh EXCEPT !.phase = "error",
                                 !.error = "Invalid permission mode for session flavor"]
              ELSE [fresh EXCEPT !.phase = "pending",
                                 !.calls = <<[op |-> kind, sessionId |-> mutation.sessionId]>>]
    /\ UNCHANGED <<sessions, selectionState, bulkDeleteDialogOpen, effectPending, run, toast,
                   api, input, output, collapseOverrides, pruneEffectPending, secondRun>>

\* invalidateSession
invalidateSession(m) ==
    IF m.sessionId = "null" THEN m
    ELSE [m EXCEPT !.invalidated = @ \o <<"session", "sessions">>]

onSuccess_SessionOnly(m) ==
    IF m.sessionId = "null" THEN m
    ELSE IF m.kind = "delete" THEN [m EXCEPT !.removed = TRUE, !.cleared = TRUE]
    ELSE [m EXCEPT !.invalidated = @ \o <<"session">>]

\* onSuccess of the kind's mutation
onSuccess(m) ==
    IF m.kind = "delete"
    THEN IF m.sessionId = "null" THEN m
         ELSE [m EXCEPT !.removed = TRUE, !.cleared = TRUE,
                        !.invalidated = @ \o <<"sessions">>]
    ELSE invalidateSession(m)

\* The remote call settles: onSuccess runs when it fulfils; when it rejects
\* the mutation fails with the call's error and mutateAsync rejects.
RemoteSettle(outcome) ==
    /\ mutation.phase = "pending"
    /\ mutation' = IF outcome = "fulfilled"
                   THEN onSuccess([mutation EXCEPT !.phase = "success"])
                   ELSE [mutation EXCEPT !.phase = "error", !.error = "remote"]
    /\ UNCHANGED <<sessions, selectionState, bulkDeleteDialogOpen, effectPending, run, toast,
                   api, input, output, collapseOverrides, pruneEffectPending, secondRun>>

InitActions ==
    /\ sessions = [id \in Ids |-> "absent"]
    /\ selectionState = [selectionMode |-> FALSE, selectedIds |-> {}]
    /\ bulkDeleteDialogOpen = FALSE
    /\ effectPending = FALSE
    /\ run = IdleRun
    /\ toast = NoToast
    /\ api \in {"present", "null"}
    /\ \E sessionId \in {"s", "null"}, agentFlavor \in {"known", "unknown"} :
          mutation = NoMutation(sessionId, agentFlavor)
    /\ input = NoInput
    /\ collapseOverrides = NoOverrides
    /\ pruneEffectPending = FALSE
    /\ secondRun = IdleRun
    /\ output = NoOutput

NextActions ==
    \/ \E kind \in Kinds : \E arg \in Args(kind) : Mutate(kind, arg)
    \/ \E outcome \in {"fulfilled", "rejected"} : RemoteSettle(outcome)
    \/ \E new \in {"present", "null"} : ApiChange(new)

SpecActions == InitActions /\ [][NextActions]_vars

----------------------------------------------------------------------------
\* The grouping engine.  Strings are sequences of one-character strings; an
\* optional field is the empty set when absent (null or undefined) and the
\* singleton of its value when present.

Other == <<"O", "t", "h", "e", "r">>

Separators == {"/", "\\"}

\* directory.split(/[\\/]+/): the pieces between maximal runs of separators,
\* the empty pieces before a leading run and after a trailing run included.
RECURSIVE SplitFrom(_, _, _)
SplitFrom(str, piece, inRun) ==
    IF str = <<>> THEN <<piece>>
    ELSE IF Head(str) \in Separators
         THEN IF inRun THEN SplitFrom(Tail(str), piece, TRUE)
              ELSE <<piece>> \o SplitFrom(Tail(str), <<>>, TRUE)
         ELSE SplitFrom(Tail(str), Append(piece, Head(str)), FALSE)

Split(str) == SplitFrom(str, <<>>, FALSE)

\* .filter(Boolean) on an array of strings drops the empty ones.
NonEmptyString(str) == str # <<>>
FilterBoolean(strs) == SelectSeq(strs, NonEmptyString)

getGroupDisplayName_LastOnly(directory) ==
    IF directory = Other THEN directory
    ELSE LET parts == FilterBoolean(Split(directory))
         IN  IF Len(parts) = 0 THEN directory ELSE parts[Len(parts)]

getGroupDisplayName(directory) ==
    IF directory = Other THEN directory
    ELSE LET parts == FilterBoolean(Split(directory))
         IN  IF Len(parts) = 0 THEN directory
             ELSE IF Len(parts) = 1 THEN parts[1]
             ELSE parts[Len(parts) - 1] \o <<"/">> \o parts[Len(parts)]

\* a ?? b
Coalesce(a, b) == IF a = {} THEN b ELSE CHOOSE x \in a : TRUE

\* session.metadata?.worktree?.basePath ?? session.metadata?.path ?? 'Other'
pathOf_PathFirst(session) == Coalesce(session.path, Coalesce(session.basePath, Other))

pathOf(session) == Coalesce(session.basePath, Coalesce(session.path, Other))

\* The Map as its entries <<key, array>> in insertion order; has / set / push.
MapPush(entries, key, session) ==
    IF \E k \in DOMAIN entries : entries[k][1] = key
    THEN [k \in DOMAIN entries |->
             IF entries[k][1] = key
             THEN <<key, Append(entries[k][2], session)>>
             ELSE entries[k]]
    ELSE Append(entries, <<key, <<session>>>>)

\* sessions.forEach(session => ...)
RECURSIVE ForEachSession(_, _)
ForEachSession(ss, entries) ==
    IF ss = <<>> THEN entries
    ELSE ForEachSession(Tail(ss), MapPush(entries, pathOf(Head(ss)), Head(ss)))

\* Array.prototype.sort(compare): a stable sort; for a comparator that is a
\* total preorder the element at index k lands behind exactly the elements
\* that compare before it and the equal ones that stood before it.
\* compared[j][k] is compare(array[j], array[k]).
Sort(array, compared) ==
    LET n == Len(array)
        before(k) == {j \in 1..n : \/ compared[j][k] < 0
                                   \/ compared[j][k] = 0 /\ j < k}
    IN  [p \in 1..n |-> array[CHOOSE k \in 1..n : Cardinality(before(k)) = p - 1]]

rank(s) == IF s.active THEN (IF s.pendingRequestsCount > 0 THEN 0 ELSE 1) ELSE 2

compareSessions_TimeOnly(a, b) == b.updatedAt - a.updatedAt

compareSessions(a, b) ==
    IF rank(a) # rank(b) THEN rank(a) - rank(b)
    ELSE b.updatedAt - a.updatedAt

compareGroups_TimeOnly(a, b) == b.latestUpdatedAt - a.latestUpdatedAt

compareGroups(a, b) ==
    IF a.hasActiveSession # b.hasActiveSession
    THEN (IF a.hasActiveSession THEN -1 ELSE 1)
    ELSE b.latestUpdatedAt - a.latestUpdatedAt

\* groupSessions.reduce((max, s) => s.updatedAt > max ? s.updatedAt : max,
\* -Infinity) over the sessions of a Map entry, of which there is at least one.
latestUpdatedAt(groupSessions) ==
    CHOOSE max \in {groupSessions[k].updatedAt : k \in DOMAIN groupSessions} :
        \A k \in DOMAIN groupSessions : groupSessions[k].updatedAt <= max

SessionGroup(entry) ==
    [directory |-> entry[1],
     displayName |-> getGroupDisplayName(entry[1]),
     sessions |-> Sort(entry[2], [j \in DOMAIN entry[2] |-> [k \in DOMAIN entry[2] |->
                                     compareSessions(entry[2][j], entry[2][k])]]),
     latestUpdatedAt |-> latestUpdatedAt(entry[2]),
     hasActiveSession |-> \E k \in DOMAIN entry[2] : entry[2][k].active]

groupSessionsByDirectory(ss) ==
    LET entries == ForEachSession(ss, <<>>)
        groups == [k \in DOMAIN entries |-> SessionGroup(entries[k])]
    IN  Sort(groups, [j \in DOMAIN groups |-> [k \in DOMAIN groups |->
                         compareGroups(groups[j], groups[k])]])

\* The pure functions of the view are applied while the controller rests.
controller == <<sessions, selectionState, bulkDeleteDialogOpen, effectPending, run, toast,
                api, mutation, collapseOverrides, pruneEffectPending, secondRun>>

IdleController ==
    /\ sessions = [id \in Ids |-> "absent"]
    /\ selectionState = [selectionMode |-> FALSE, selectedIds |-> {}]
    /\ bulkDeleteDialogOpen = FALSE
    /\ effectPending = FALSE
    /\ run = IdleRun
    /\ toast = NoToast
    /\ api = "present"
    /\ mutation = IdleMutation
    /\ collapseOverrides = NoOverrides
    /\ pruneEffectPending = FALSE
    /\ secondRun = IdleRun

\* Session collections handed to groupSessionsByDirectory: up to MaxSessions
\* sessions, ids by position, of every activity, timestamp and metadata below.
Activities ==
    {[active |-> TRUE, pendingRequestsCount |-> 2],
     [active |-> TRUE, pendingRequestsCount |-> 0],
     [active |-> FALSE, pendingRequestsCount |-> 0]}

UpdatedAts == {100, 200}

PathA == <<"/", "r", "/", "a">>
PathB == <<"/", "r", "/", "b">>

\* No metadata; a path; a worktree whose base path differs from the path.
NoMetadata == [basePath |-> {}, path |-> {}]
PathOnly == [basePath |-> {}, path |-> {PathA}]
Worktree == [basePath |-> {PathB}, path |-> {PathA}]

Metadatas == {NoMetadata, PathOnly, Worktree}

InputSessions(metadatas) ==
    \E n \in 0..MaxSessions :
       \E act \in [1..n -> Activities], upd \in [1..n -> UpdatedAts],
          md \in [1..n -> metadatas] :
          input = [k \in 1..n |->
                      [id |-> k, active |-> act[k].active,
                       pendingRequestsCount |-> act[k].pendingRequestsCount,
                       updatedAt |-> upd[k],
                       basePath |-> md[k].basePath, path |-> md[k].path]]

InitGroup ==
    /\ IdleController
    /\ output = NoOutput
    /\ InputSessions(Metadatas)

\* The same over two group keys only, for properties that compare the
\* grouping of a collection with that of each of its reorderings.
InitOrder ==
    /\ IdleController
    /\ output = NoOutput
    /\ InputSessions({NoMetadata, PathOnly})

\* const groups = useMemo(() => groupSessionsByDirectory(props.sessions), ...)
GroupsMemo ==
    /\ output = NoOutput
    /\ output' = [kind |-> "groups", value |-> groupSessionsByDirectory(input)]
    /\ UNCHANGED <<input, controller>>

NextGroup == GroupsMemo

SpecGroup == InitGroup /\ [][NextGroup]_vars

SpecOrder == InitOrder /\ [][NextGroup]_vars

\* Group keys handed to getGroupDisplayName: every string of up to MaxPathLen
\* characters over both separators and two other characters, "Other", and
\* the two keys named in the description of the display name.
PathChars == {"/", "\\", "a", "b"}

WorktreeKey ==
    <<"/", "h", "o", "m", "e", "/", "u", "/", "p", "r", "o", "j", "/", "w", "o", "r", "k", "t", "r", "e", "e", "s", "/", "f", "e", "a", "t", "u", "r", "e", "-", "x">>
WorktreeName ==
    <<"w", "o", "r", "k", "t", "r", "e", "e", "s", "/", "f", "e", "a", "t", "u", "r", "e", "-", "x">>
SoloKey == <<"s", "o", "l", "o">>

InitName ==
    /\ IdleController
    /\ output = NoOutput
    /\ \/ \E n \in 0..MaxPathLen : input \in [1..n -> PathChars]
       \/ input \in {Other, WorktreeKey, SoloKey}

\* const displayName = getGroupDisplayName(directory)
DisplayName ==
    /\ output = NoOutput
    /\ output' = [kind |-> "displayName", value |-> getGroupDisplayName(input)]
    /\ UNCHANGED <<input, controller>>

NextName == DisplayName

SpecName == InitName /\ [][NextName]_vars

----------------------------------------------------------------------------
\* Relative time.  A number is held exactly as hi * Base + lo with
\* 0 <= lo < Base, since timestamps in milliseconds exceed the 32-bit integers
\* of the model checker; NaN and Infinity are numbers that are not finite.

Base == 1000 * 1000

Number(hi, lo) == [finite |-> TRUE, hi |-> hi + (lo \div Base), lo |-> lo % Base]

NotANumber == [finite |-> FALSE, hi |-> 0, lo |-> 0]
PlusInfinity == [finite |-> FALSE, hi |-> 1, lo |-> 0]

\* a < b, false when either is NaN or when a is Infinity
LessThan(a, b) ==
    /\ a.finite
    /\ b.finite => (a.hi < b.hi \/ (a.hi = b.hi /\ a.lo < b.lo))

\* a - b and a * 1000 on finite numbers
Minus(a, b) == Number(a.hi - b.hi, a.lo - b.lo)
Times1000(a) == Number(a.hi * 1000, a.lo * 1000)

\* Math.floor(a / 60_000) for a finite a >= 0: a / 10_000 is
\* hi * 100 + lo / 10_000, and flooring that before dividing by 6 changes
\* nothing.
FloorDiv60000(a) == (a.hi * 100 + (a.lo \div 10000)) \div 6

\* 1_000_000_000_000
Threshold == Number(1000 * 1000, 0)

\* Faulty variant: the threshold a thousand times too low.
normalize_LowThreshold(value) ==
    IF LessThan(value, Number(1000, 0)) THEN Times1000(value) ELSE value

normalize_AsIs(value) == value

\* const ms = value < 1_000_000_000_000 ? value * 1000 : value
normalize(value) ==
    IF LessThan(value, Threshold) THEN Times1000(value) ELSE value

\* formatRelativeTime(value, t) when Date.now() returns now: the translation
\* key and its parameter n, the date to print, or null.
formatRelativeTime(value, now) ==
    LET ms == normalize(value)
        delta == Minus(now, ms)
        minutes == FloorDiv60000(delta)
        hours == minutes \div 60
        days == hours \div 24
    IN  IF ~ms.finite THEN [bucket |-> "null"]
        ELSE IF LessThan(delta, Number(0, 60000)) THEN [bucket |-> "justNow"]
        ELSE IF minutes < 60 THEN [bucket |-> "minutesAgo", n |-> minutes]
        ELSE IF hours < 24 THEN [bucket |-> "hoursAgo", n |-> hours]
        ELSE IF days < 7 THEN [bucket |-> "daysAgo", n |-> days]
        ELSE [bucket |-> "date", ms |-> ms]

\* Reference clocks (Date.now()): 2023-11-14T22:13:20.250Z and
\* 2001-09-09T01:47:10.250Z, half a minute past the threshold instant.
Clocks == {Number(1700000, 250), Number(1000000, 30250)}

\* Math.floor(now / 1000), which fits the model checker's integers
SecondsOf(now) == now.hi * 1000 + (now.lo \div 1000)

Units == {1, 60, 3600, 86400}

\* Values on and next to the threshold and next to a thousandth of it, zero,
\* and numbers that are not finite.
SpecialValues ==
    {Threshold, Minus(Threshold, Number(0, 1)),
     Number(1000, 0), Number(999, 999999), Number(0, 0),
     NotANumber, PlusInfinity}

\* updatedAt values: an instant 0..MaxAge seconds, minutes, hours or days
\* before the clock, or one second after that, given in seconds or in
\* milliseconds; and the special values.
InitTime ==
    /\ IdleController
    /\ output = NoOutput
    /\ \E now \in Clocks :
          \/ \E u \in Units, q \in 0..MaxAge, e \in {0, 1}, scale \in {"s", "ms"} :
                LET seconds == Number(0, SecondsOf(now) - q * u + e)
                IN  input = [now |-> now,
                             value |-> IF scale = "s" THEN seconds
                                       ELSE Times1000(seconds)]
          \/ \E v \in SpecialValues : input = [now |-> now, value |-> v]

\* {formatRelativeTime(s.updatedAt, t)} in a session row
RelativeTime ==
    /\ output = NoOutput
    /\ output' = [kind |-> "relativeTime",
                  value |-> formatRelativeTime(input.value, input.now)]
    /\ UNCHANGED <<input, controller>>

NextTime == RelativeTime

SpecTime == InitTime /\ [][NextTime]_vars

\* Pairs of updatedAt values, in seconds and in milliseconds: up to MaxAge from
\* zero and from the threshold on either side, a 2023 instant in both units,
\* and the finite special values.
UpdatedAtValues ==
    {Number(0, k) : k \in 0..MaxAge}
    \cup {Number(1000 * 1000, k) : k \in 0..MaxAge}
    \cup {Minus(Threshold, Number(0, k)) : k \in 1..MaxAge}
    \cup {Number(1700, 0), Number(1700000, 0)}
    \cup {v \in SpecialValues : v.finite}

InitNormalize ==
    /\ IdleController
    /\ output = NoOutput
    /\ \E a \in UpdatedAtValues, b \in UpdatedAtValues : input = [a |-> a, b |-> b]

\* The normalization of both values, as formatRelativeTime does it for each.
Normalize ==
    /\ output = NoOutput
    /\ output' = [kind |-> "normalized", a |-> normalize(input.a), b |-> normalize(input.b)]
    /\ UNCHANGED <<input, controller>>

NextNormalize == Normalize

SpecNormalize == InitNormalize /\ [][NextNormalize]_vars

----------------------------------------------------------------------------
\* Collapse overrides of the directory groups (SessionList.tsx 642-677, 787-868).
\* The groups of a render are those of groupSessionsByDirectory(props.sessions):
\* one per directory of a listed session.

\* groups.map(group => group.directory)
groupDirectories == {DirOf(id) : id \in PresentIds}

\* group.hasActiveSession (97)
hasActiveSession(directory) ==
    \E id \in PresentIds : DirOf(id) = directory /\ sessions[id] = "active"

\* Faulty variant: a group with an active session is never shown collapsed.
isGroupCollapsed_ActiveWins(directory) ==
    IF hasActiveSession(directory) THEN FALSE
    ELSE IF directory \in DOMAIN collapseOverrides THEN collapseOverrides[directory]
    ELSE TRUE

\* isGroupCollapsed (649-653)
isGroupCollapsed(directory) ==
    IF directory \in DOMAIN collapseOverrides THEN collapseOverrides[directory]
    ELSE ~hasActiveSession(directory)

\* next.set(key, value) on a copy of the Map
MapSet(map, key, value) ==
    [k \in DOMAIN map \cup {key} |-> IF k = key THEN value ELSE map[k]]

\* toggleGroup (655-661)
toggleGroup(directory, isCollapsed) ==
    collapseOverrides' = MapSet(collapseOverrides, directory, ~isCollapsed)

\* The group header button (828-832): isCollapsed is the value of this render.
GroupHeaderClick(directory) ==
    /\ Committed
    /\ directory \in groupDirectories
    /\ toggleGroup(directory, isGroupCollapsed(directory))
    /\ toast' = NoToast
    /\ UNCHANGED <<sessions, selectionState, bulkDeleteDialogOpen, effectPending, run,
                   api, mutation, input, output, pruneEffectPending, secondRun>>

\* The rows of a group are rendered only while it is not collapsed (847-866).
RowToggle(id) ==
    /\ ~isGroupCollapsed(DirOf(id))
    /\ ToggleSession(id)

\* props.sessions changes: the groups memo is recomputed, and both the
\* reconciliation effect and the pruning effect are scheduled.
GroupsChange(new) ==
    /\ Committed
    /\ new # sessions
    /\ sessions' = new
    /\ effectPending' = TRUE
    /\ pruneEffectPending' = TRUE
    /\ toast' = NoToast
    /\ UNCHANGED <<selectionState, bulkDeleteDialogOpen, run,
                   api, mutation, input, output, collapseOverrides, secondRun>>

\* The pruning useEffect (663-677).  It is flushed together with the
\* reconciliation effect; the two write different state, so their order
\* makes no difference and the pruning is taken first.
PruneEffect ==
    /\ pruneEffectPending
    /\ collapseOverrides' =
           IF DOMAIN collapseOverrides = {} THEN collapseOverrides
           ELSE [directory \in DOMAIN collapseOverrides \cap groupDirectories |->
                    collapseOverrides[directory]]
    /\ pruneEffectPending' = FALSE
    /\ toast' = NoToast
    /\ UNCHANGED <<sessions, selectionState, bulkDeleteDialogOpen, effectPending, run,
                   api, mutation, input, output, secondRun>>

ReconcileAfterPrune ==
    /\ ~pruneEffectPending
    /\ ReconcileEffect

InitCollapse ==
    /\ sessions \in [Ids -> SessionStatus]
    /\ selectionState = [selectionMode |-> FALSE, selectedIds |-> {}]
    /\ bulkDeleteDialogOpen = FALSE
    /\ effectPending = FALSE
    /\ run = IdleRun
    /\ toast = NoToast
    /\ api = "present"
    /\ mutation = IdleMutation
    /\ input = NoInput
    /\ collapseOverrides = NoOverrides
    /\ pruneEffectPending = FALSE
    /\ secondRun = IdleRun
    /\ output = NoOutput

NextCollapse ==
    \/ EnterButton
    \/ ApiEnter
    \/ ExitButton
    \/ ApiExit
    \/ \E id \in Ids : RowToggle(id)
    \/ handleSelectAll
    \/ ClearButton
    \/ \E dir \in 1..NumDirs : GroupToggle(dir)
    \/ \E dir \in 1..NumDirs : GroupHeaderClick(dir)
    \/ \E new \in [Ids -> SessionStatus] : GroupsChange(new)
    \/ PruneEffect
    \/ ReconcileAfterPrune

SpecCollapse == InitCollapse /\ [][NextCollapse]_vars

----------------------------------------------------------------------------
\* Double submit: handleConfirmBulkDelete invoked again while its first
\* deleteSessions call is in flight.  The handler itself tests nothing
\* (538-540); each invocation is one mutateAsync, with its own mutationFn,
\* onSuccess and resumption of the handler.

\* Faulty variant: the second invocation re-submits the first one's ids.
ConfirmAgain_SameIds ==
    /\ Committed
    /\ bulkDeleteDialogOpen
    /\ run.phase # "idle"
    /\ secondRun.phase = "idle"
    /\ secondRun' = mutationFn(run.ids)
    /\ toast' = NoToast
    /\ UNCHANGED <<sessions, selectionState, bulkDeleteDialogOpen, effectPending, run,
                   api, mutation, input, output, collapseOverrides, pruneEffectPending>>

\* handleConfirmBulkDelete up to its await (538-540), the first still pending.
ConfirmAgain ==
    /\ Committed
    /\ bulkDeleteDialogOpen
    /\ run.phase # "idle"
    /\ secondRun.phase = "idle"
    /\ secondRun' = mutationFn(ArrayFrom(selectionState.selectedIds))
    /\ toast' = NoToast
    /\ UNCHANGED <<sessions, selectionState, bulkDeleteDialogOpen, effectPending, run,
                   api, mutation, input, output, collapseOverrides, pruneEffectPending>>

\* One api.deleteSession promise of the second invocation settles.
SettleSecond(k, outcome) ==
    /\ Committed
    /\ secondRun.phase = "deleting"
    /\ k \in InFlight(secondRun)
    /\ LET r == [secondRun EXCEPT !.status[k] = outcome]
       IN  secondRun' = IF AllSettled(r) THEN AfterBatch(r) ELSE r
    /\ toast' = NoToast
    /\ UNCHANGED <<sessions, selectionState, bulkDeleteDialogOpen, effectPending, run,
                   api, mutation, input, output, collapseOverrides, pruneEffectPending>>

\* The second invocation resumes after its await (542-568).
BulkSettledSecond ==
    /\ Committed
    /\ secondRun.phase = "invalidating"
    /\ Dispatch(confirmDispatches(secondRun.succeeded, secondRun.failed))
    /\ toast' = confirmToast(secondRun.succeeded, secondRun.failed)
    /\ bulkDeleteDialogOpen' = FALSE
    /\ secondRun' = IdleRun
    /\ UNCHANGED <<sessions, run,
                   api, mutation, input, output, collapseOverrides, pruneEffectPending>>

\* A refetch in which one listed session has become active.
SessionActivates(id) ==
    /\ sessions[id] = "inactive"
    /\ SessionsChange([sessions EXCEPT ![id] = "active"])

\* The dialog is open on the selection of every session, all inactive.
InitDouble ==
    /\ sessions = [id \in Ids |-> "inactive"]
    /\ selectionState = [selectionMode |-> TRUE, selectedIds |-> Ids]
    /\ bulkDeleteDialogOpen = TRUE
    /\ effectPending = FALSE
    /\ run = IdleRun
    /\ toast = NoToast
    /\ api = "present"
    /\ mutation = IdleMutation
    /\ input = NoInput
    /\ collapseOverrides = NoOverrides
    /\ pruneEffectPending = FALSE
    /\ secondRun = IdleRun
    /\ output = NoOutput

NextDouble ==
    \/ ConfirmBulkDelete
    \/ ConfirmAgain
    \/ \E k \in DOMAIN run.status, outcome \in {"fulfilled", "rejected"} : Settle(k, outcome)
    \/ \E k \in DOMAIN secondRun.status, outcome \in {"fulfilled", "rejected"} :
          SettleSecond(k, outcome)
    \/ BulkSettled
    \/ BulkSettledSecond
    \/ \E id \in Ids : SessionActivates(id)
    \/ ReconcileEffect

SpecDouble == InitDouble /\ [][NextDouble]_vars

----------------------------------------------------------------------------
\* The orchestrator under fairness: every api.deleteSession promise that is
\* pending settles, and the refresh awaited by onSuccess resolves, so that
\* mutateAsync resolves and the handler resumes.  Pressing the confirm button
\* is the user's choice: no fairness.

InitLive ==
    /\ sessions = [id \in BulkIds |-> "inactive"]
    /\ \E n \in 0..MaxSettle :
          selectionState = [selectionMode |-> TRUE, selectedIds |-> 1..n]
    /\ bulkDeleteDialogOpen = TRUE
    /\ effectPending = FALSE
    /\ run = IdleRun
    /\ toast = NoToast
    /\ api \in {"present", "null"}
    /\ mutation = IdleMutation
    /\ input = NoInput
    /\ collapseOverrides = NoOverrides
    /\ pruneEffectPending = FALSE
    /\ secondRun = IdleRun
    /\ output = NoOutput

Fairness ==
    /\ \A k \in 1..MaxSettle :
          WF_vars(\E outcome \in {"fulfilled", "rejected"} : Settle(k, outcome))
    /\ WF_vars(BulkSettled)

SpecLive == InitLive /\ [][NextBulk]_vars /\ Fairness

----------------------------------------------------------------------------
\* The reducer alone: from any reducer state, one set operation or up to two
\* toggles are dispatched; output keeps the state before and the actions.

\* sessionIds: string[] of an action, repeats allowed.
IdArrays == UNION {[1..n -> Ids] : n \in 0..MaxIdsLen}

SelectionStates == [selectionMode : BOOLEAN, selectedIds : SUBSET Ids]

InitReducer ==
    /\ sessions = [id \in Ids |-> "inactive"]
    /\ selectionState \in SelectionStates
    /\ bulkDeleteDialogOpen = FALSE
    /\ effectPending = FALSE
    /\ run = IdleRun
    /\ toast = NoToast
    /\ api = "present"
    /\ mutation = IdleMutation
    /\ input = NoInput
    /\ collapseOverrides = NoOverrides
    /\ pruneEffectPending = FALSE
    /\ secondRun = IdleRun
    /\ output = [kind |-> "reduced", before |-> selectionState, actions |-> <<>>]

\* dispatchSelection(action) of useReducer(selectionReducer, ...) (466-469).
dispatchSelection(action) ==
    /\ selectionState' = selectionReducer(selectionState, action)
    /\ output' = [output EXCEPT !.actions = Append(@, action)]
    /\ UNCHANGED <<sessions, bulkDeleteDialogOpen, effectPending, run, toast,
                   api, mutation, input, collapseOverrides, pruneEffectPending, secondRun>>

DispatchSelectAll(ids) ==
    /\ output.actions = <<>>
    /\ dispatchSelection(SelectAllAction(ids))

DispatchSetSelection(ids) ==
    /\ output.actions = <<>>
    /\ dispatchSelection(SetSelectionAction(ids))

DispatchClearSelection ==
    /\ output.actions = <<>>
    /\ dispatchSelection(ClearAction)

DispatchToggleSession(id) ==
    /\ Len(output.actions) < 2
    /\ \A k \in DOMAIN output.actions : output.actions[k].type = "TOGGLE_SESSION"
    /\ dispatchSelection(ToggleAction(id))

NextReducer ==
    \/ \E ids \in IdArrays : DispatchSelectAll(ids)
    \/ \E ids \in IdArrays : DispatchSetSelection(ids)
    \/ DispatchClearSelection
    \/ \E id \in Ids : DispatchToggleSession(id)

SpecReducer == InitReducer /\ [][NextReducer]_vars

----------------------------------------------------------------------------
\* Properties.

Inactive == {id \in DOMAIN sessions : sessions[id] = "inactive"}

\* The step in which handleConfirmBulkDelete resumes after its await.
HandlerResumes == run.phase = "invalidating" /\ run'.phase = "idle"
AllSucceeded(r) == Len(r.failed) = 0
AllFailed(r) == Len(r.failed) > 0 /\ Len(r.succeeded) = 0
Mixed(r) == Len(r.failed) > 0 /\ Len(r.succeeded) > 0

\* C1: in every reachable state, selectionMode = false implies that selectedIds
\* is empty.
C1_IdleImpliesEmpty ==
    ~selectionState.selectionMode => selectionState.selectedIds = {}

\* C2: once the reconciliation effect has run for the latest collection, every
\* selected id is the id of a non-active session present in that collection.
C2_SelectedAreSelectable ==
    Committed => \A id \in selectionState.selectedIds :
                    id \in DOMAIN sessions /\ sessions[id] = "inactive"

\* C2 witness: a committed state with a selection next to an active and a
\* vanished session.
C2_Witness ==
    /\ Committed
    /\ selectionState.selectedIds # {}
    /\ \E a, b \in Ids : sessions[a] = "active" /\ sessions[b] = "absent"

\* C3: a change of the session collection leaves the selection state alone and
\* schedules the reconciliation effect; the effect, run for the new collection,
\* sets selectedIds to (previous selectedIds) intersected with (ids of
\* non-active sessions of the new collection) and keeps selectionMode.
C3_Reconciliation ==
    [][/\ sessions' # sessions => (selectionState' = selectionState /\ effectPending')
       /\ effectPending =>
            /\ sessions' = sessions
            /\ selectionState'.selectedIds = selectionState.selectedIds \cap Inactive
            /\ selectionState'.selectionMode = selectionState.selectionMode]_vars

\* C3 witness: after a collection change one selected session is still
\* selectable and another has turned active, and the effect is about to run.
C3_Witness ==
    /\ effectPending
    /\ toast = NoToast
    /\ \E x, y \in selectionState.selectedIds :
          sessions[x] = "inactive" /\ sessions[y] = "active"

\* C4: the input is cut into consecutive chunks of 5 (the last one shorter),
\* ceil(n/5) chunks in all, and no call of a later chunk is issued before every
\* call of each earlier chunk has settled.
C4_ChunksInOrder ==
    run.phase # "idle" =>
        LET n == Len(run.ids)
        IN  /\ \A j \in DOMAIN run.batches :
                  run.batches[j] = SubSeq(run.ids, 5 * (j - 1) + 1, Min(5 * j, n))
            /\ \A k \in 1..n :
                  run.status[k] # "unissued" <=> (k - 1) \div 5 < Len(run.batches)
            /\ \A j, k \in 1..n :
                  ((j - 1) \div 5 < (k - 1) \div 5 /\ run.status[k] # "unissued")
                      => run.status[j] \in {"fulfilled", "rejected"}
            /\ run.phase = "invalidating" => Len(run.batches) = (n + 4) \div 5

\* C4 witness: 12 ids, the third chunk (2 ids) in flight after chunks of 5 and 5.
C4_Witness ==
    /\ run.phase = "deleting"
    /\ Len(run.ids) = 12
    /\ Len(run.batches) = 3
    /\ Len(run.batches[1]) = 5 /\ Len(run.batches[2]) = 5 /\ Len(run.batches[3]) = 2
    /\ InFlight(run) = {11, 12}

\* C5: at most 5 delete calls of a bulk delete are issued and not yet settled.
C5_AtMostFiveInFlight == Cardinality(InFlight(run)) <= 5

\* C5 witness: 5 calls in flight while further ids wait for their chunk.
C5_Witness ==
    /\ Cardinality(InFlight(run)) = 5
    /\ \E k \in DOMAIN run.status : run.status[k] = "unissued"

\* C6: the orchestrator returns only when every input id has had exactly one
\* delete call and that call has settled; each id is then listed exactly once,
\* in succeeded iff its call fulfilled and in failed iff it rejected; while
\* it has not returned, some call is in flight.
C6_ExactClassification ==
    /\ run.phase = "deleting" => InFlight(run) # {}
    /\ run.phase = "invalidating" =>
        LET n == Len(run.ids)
        IN  /\ \A k \in 1..n : run.status[k] \in {"fulfilled", "rejected"}
            /\ Calls(run) = run.ids
            /\ Cardinality(SucceededIds(run)) = Len(run.succeeded)
            /\ Cardinality(FailedIds(run)) = Len(run.failed)
            /\ Len(run.succeeded) + Len(run.failed) = n
            /\ SucceededIds(run) = {run.ids[k] : k \in {j \in 1..n : run.status[j] = "fulfilled"}}
            /\ FailedIds(run) = {run.ids[k] : k \in {j \in 1..n : run.status[j] = "rejected"}}
            /\ SucceededIds(run) \cap FailedIds(run) = {}

\* C6 witness: a run over two chunks has returned with a rejection and a
\* success in each chunk.
C6_Witness ==
    /\ run.phase = "invalidating"
    /\ Len(run.ids) >= 7
    /\ run.status[1] = "rejected" /\ run.status[2] = "fulfilled"
    /\ run.status[6] = "rejected" /\ run.status[7] = "fulfilled"

\* C7: when a bulk delete settles with at least one success and one failure,
\* result handling leaves selectedIds equal to the failed ids and selectionMode
\* true, whatever happened to the selection while the delete was in flight.
C7_MixedSelectsFailed ==
    [][(HandlerResumes /\ Mixed(run)) =>
            /\ selectionState'.selectedIds = FailedIds(run)
            /\ selectionState'.selectionMode]_vars

\* C8: when a bulk delete settles with no failure, result handling leaves
\* selectedIds empty, selectionMode false and the confirmation dialog closed.
C8_AllSuccessExits ==
    [][(HandlerResumes /\ AllSucceeded(run)) =>
            /\ selectionState' = [selectionMode |-> FALSE, selectedIds |-> {}]
            /\ ~bulkDeleteDialogOpen']_vars

\* C8 witness: the success notification has just been emitted for a run that
\* deleted two sessions, and the view is idle with the dialog closed.
C8_Witness ==
    /\ toast = [title |-> "toastSuccessTitle", n |-> 2]
    /\ ~selectionState.selectionMode
    /\ selectionState.selectedIds = {}
    /\ ~bulkDeleteDialogOpen

\* C9 as stated: after an all-failed settlement selectionMode is true and
\* selectedIds equals the set of ids that was submitted.
C9_AllFailedKeepsSubmitted ==
    [][(HandlerResumes /\ AllFailed(run)) =>
            /\ selectionState'.selectionMode
            /\ selectionState'.selectedIds = Range(run.ids)]_vars

\* C9 amended: after an all-failed settlement the handler has made no selection
\* transition: selectionMode and selectedIds are what they were when it resumed.
C9_AllFailedNoTransition ==
    [][(HandlerResumes /\ AllFailed(run)) => selectionState' = selectionState]_vars

\* C9 witness: the all-failed notification has just been emitted and the
\* selection is still there in selection mode.
C9_Witness ==
    /\ toast.title = "toastAllFailedTitle"
    /\ selectionState.selectionMode
    /\ selectionState.selectedIds # {}

\* C10: when a bulk delete has settled, the collection refresh has been
\* triggered exactly once and eviction and message-buffer clearing have been
\* done for exactly the ids whose call fulfilled; before that, none of them.
C10_RefreshOnceEvictSucceeded ==
    /\ run.phase = "deleting" =>
            run.refreshes = 0 /\ run.evicted = {} /\ run.cleared = {}
    /\ run.phase = "invalidating" =>
        LET ok == {run.ids[k] : k \in {j \in DOMAIN run.ids : run.status[j] = "fulfilled"}}
        IN  /\ run.refreshes = 1
            /\ run.evicted = ok
            /\ run.cleared = ok
            /\ run.evicted \cap FailedIds(run) = {}

\* C10 witness: a settled run with a success and a failure.
C10_Witness ==
    /\ run.phase = "invalidating"
    /\ Mixed(run)

\* C11: a bulk delete confirmed while the api is null rejects before any
\* delete call is issued and yields no result: the mutation is left not
\* pending with its error set, nothing is evicted or cleared, the collection
\* is not refreshed, and selectionMode and selectedIds are as they were.
C11_NoApiRejects ==
    [][(api = "null" /\ ConfirmBulkDelete) =>
          /\ run'.error # "none"
          /\ run'.phase = "idle"
          /\ Calls(run') = <<>>
          /\ run'.succeeded = <<>> /\ run'.failed = <<>>
          /\ run'.evicted = {} /\ run'.cleared = {} /\ run'.refreshes = 0
          /\ selectionState' = selectionState]_vars

C11_Witness ==
    /\ run.error = "API unavailable"
    /\ selectionState.selectionMode
    /\ Cardinality(selectionState.selectedIds) = 2
    /\ bulkDeleteDialogOpen

\* Where a session of the input stands in the output: <<group index, index>>.
Positions(groups) ==
    UNION {{<<g, j>> : j \in DOMAIN groups[g].sessions} : g \in DOMAIN groups}

Distinct(ss) ==
    \A i, j \in DOMAIN ss :
        i # j => <<rank(ss[i]), ss[i].updatedAt>> # <<rank(ss[j]), ss[j].updatedAt>>

InputOrders(n) == {p \in [1..n -> 1..n] : \A i, j \in 1..n : i # j => p[i] # p[j]}

\* C12: the groups partition the input: every input session stands at exactly
\* one position of the output, in the group keyed by its worktree base path,
\* else its path, else "Other"; every output position holds an input session;
\* no group is empty and no two groups have the same key.
C12_GroupingIsPartition ==
    output.kind = "groups" =>
        LET groups == output.value
            at(k) == {gj \in Positions(groups) :
                         groups[gj[1]].sessions[gj[2]] = input[k]}
            key(s) == IF s.basePath # {} THEN CHOOSE x \in s.basePath : TRUE
                      ELSE IF s.path # {} THEN CHOOSE x \in s.path : TRUE
                      ELSE Other
        IN  /\ \A k \in DOMAIN input :
                  /\ Cardinality(at(k)) = 1
                  /\ \A gj \in at(k) : groups[gj[1]].directory = key(input[k])
            /\ Cardinality(Positions(groups)) = Len(input)
            /\ \A g \in DOMAIN groups : Len(groups[g].sessions) > 0
            /\ \A g, h \in DOMAIN groups :
                  g # h => groups[g].directory # groups[h].directory

C12_Witness ==
    /\ output.kind = "groups"
    /\ Len(input) = 3
    /\ Len(output.value) = 2
    /\ \E g \in DOMAIN output.value :
          /\ output.value[g].directory = PathB
          /\ Len(output.value[g].sessions) = 2

\* C13: within every group a session of lower rank stands before one of
\* higher rank and, at equal rank, the later updatedAt stands first; a group
\* whose members have pairwise distinct (rank, updatedAt) has the same
\* sessions list whatever the order of the input collection.
C13_MemberOrder ==
    output.kind = "groups" =>
        LET groups == output.value
        IN  /\ \A g \in DOMAIN groups : \A i, j \in DOMAIN groups[g].sessions :
                  i < j =>
                     LET a == groups[g].sessions[i]
                         b == groups[g].sessions[j]
                     IN  \/ rank(a) < rank(b)
                         \/ rank(a) = rank(b) /\ a.updatedAt >= b.updatedAt
            /\ \A p \in InputOrders(Len(input)) :
                  LET permuted == groupSessionsByDirectory([k \in DOMAIN input |-> input[p[k]]])
                  IN  \A g \in DOMAIN groups :
                         Distinct(groups[g].sessions) =>
                            \E h \in DOMAIN permuted :
                               /\ permuted[h].directory = groups[g].directory
                               /\ permuted[h].sessions = groups[g].sessions

C13_Witness ==
    /\ output.kind = "groups"
    /\ Len(input) = 3
    /\ ~input[1].active /\ input[1].updatedAt = 200
    /\ input[2].active /\ input[2].pendingRequestsCount = 0 /\ input[2].updatedAt = 200
    /\ input[3].active /\ input[3].pendingRequestsCount = 2 /\ input[3].updatedAt = 100
    /\ Len(output.value) = 1
    /\ output.value[1].sessions = <<input[3], input[2], input[1]>>

\* C14: every group with an active member stands before every group without
\* one, and of two groups that agree on having an active member the one
\* standing first has a latest updatedAt (the maximum over its members) at
\* least that of the other.
C14_GroupOrder ==
    output.kind = "groups" =>
        LET groups == output.value
            members(g) == {groups[g].sessions[j] : j \in DOMAIN groups[g].sessions}
            hasActive(g) == \E s \in members(g) : s.active
            latest(g) == CHOOSE t \in {s.updatedAt : s \in members(g)} :
                            \A s \in members(g) : s.updatedAt <= t
        IN  \A g, h \in DOMAIN groups :
               g < h =>
                  /\ hasActive(h) => hasActive(g)
                  /\ (hasActive(g) <=> hasActive(h)) => latest(g) >= latest(h)

C14_Witness ==
    /\ output.kind = "groups"
    /\ Len(output.value) = 3
    /\ output.value[1].hasActiveSession /\ output.value[1].latestUpdatedAt = 100
    /\ ~output.value[2].hasActiveSession /\ output.value[2].latestUpdatedAt = 200
    /\ ~output.value[3].hasActiveSession /\ output.value[3].latestUpdatedAt = 100

\* The segments of a string: its maximal runs of characters that are neither
\* '/' nor '\', as <<first index, last index>>.
Segments(str) ==
    {ij \in (DOMAIN str) \X (DOMAIN str) :
        /\ ij[1] <= ij[2]
        /\ \A k \in ij[1]..ij[2] : str[k] \notin {"/", "\\"}
        /\ ij[1] = 1 \/ str[ij[1] - 1] \in {"/", "\\"}
        /\ ij[2] = Len(str) \/ str[ij[2] + 1] \in {"/", "\\"}}

\* C15: the display name of "Other" is "Other"; of any other key it is the
\* key itself when the key has no segment, the segment when it has one, and
\* otherwise its last two segments joined by '/'.  So
\* "/home/u/proj/worktrees/feature-x" shows as "worktrees/feature-x" and
\* "solo" as "solo".
C15_DisplayName ==
    output.kind = "displayName" =>
        LET segs == Segments(input)
            last == CHOOSE ij \in segs : \A kl \in segs : kl[1] <= ij[1]
            lastButOne == CHOOSE ij \in segs \ {last} :
                             \A kl \in segs \ {last} : kl[1] <= ij[1]
        IN  /\ input = Other => output.value = Other
            /\ input # Other /\ Cardinality(segs) = 0 => output.value = input
            /\ input # Other /\ Cardinality(segs) = 1 =>
                  output.value = SubSeq(input, last[1], last[2])
            /\ input # Other /\ Cardinality(segs) > 1 =>
                  output.value = SubSeq(input, lastButOne[1], lastButOne[2])
                                 \o <<"/">> \o SubSeq(input, last[1], last[2])
            /\ input = WorktreeKey => output.value = WorktreeName
            /\ input = SoloKey => output.value = SoloKey

C15_Witness ==
    /\ output.kind = "displayName"
    /\ input = WorktreeKey
    /\ output.value = WorktreeName

\* C16 as stated: the value s shown now and the value 1000 * s shown now fall
\* into the same bucket whenever 1000 * s is at or above the threshold.
C16_SameBucketAnySeconds ==
    output.kind = "relativeTime" /\ input.value.finite
    /\ ~LessThan(Times1000(input.value), Threshold)
    => formatRelativeTime(Times1000(input.value), input.now).bucket = output.value.bucket

\* C16, amended: values below the threshold are multiplied by 1000 and the
\* others are used as they are, so for s below the threshold with 1000 * s
\* at or above it, s and 1000 * s are shown as the same instant: the same
\* bucket with the same count or date.
C16_SameBucket ==
    output.kind = "relativeTime" /\ input.value.finite
    /\ LessThan(input.value, Threshold)
    /\ ~LessThan(Times1000(input.value), Threshold)
    => /\ formatRelativeTime(Times1000(input.value), input.now) = output.value
       /\ output.value.bucket \in {"justNow", "minutesAgo", "hoursAgo", "daysAgo", "date"}

C16_Witness ==
    /\ output.kind = "relativeTime"
    /\ input.now = Number(1700000, 250)
    /\ input.value = Number(1699, 996400)
    /\ output.value = [bucket |-> "hoursAgo", n |-> 1]

\* C17: a step Escape can take starts in selection mode with no bulk delete
\* pending and ends with selectionMode false, nothing selected and the
\* dialog closed; whenever a bulk delete is pending, or selectionMode is
\* false, Escape can take no step at all; in selection mode with nothing
\* pending (and no effect waiting to be flushed) it can.
C17_EscapeGated ==
    /\ [][EscapeKey =>
             /\ selectionState.selectionMode /\ ~isBulkDeleting
             /\ selectionState' = [selectionMode |-> FALSE, selectedIds |-> {}]
             /\ ~bulkDeleteDialogOpen']_vars
    /\ [](isBulkDeleting \/ ~selectionState.selectionMode => ~ENABLED EscapeKey)
    /\ [](Committed /\ selectionState.selectionMode /\ ~isBulkDeleting => ENABLED EscapeKey)

C17_Witness ==
    /\ ENABLED EscapeKey
    /\ bulkDeleteDialogOpen
    /\ Cardinality(selectionState.selectedIds) = 2

\* C18: exitSelectionMode can be called in every committed state; it leaves
\* selectionMode false, nothing selected and the dialog closed, and leaves the
\* run as it was.  The run goes on: while it is deleting some call is in
\* flight, when it reaches its result handling every submitted id has been
\* called and has settled, exactly the fulfilled ids are evicted and the
\* collection is refreshed once, and a run ends only by the handler resuming
\* and emitting its notification.
C18_ExitDoesNotCancel ==
    /\ [][ApiExit =>
             /\ selectionState' = [selectionMode |-> FALSE, selectedIds |-> {}]
             /\ ~bulkDeleteDialogOpen'
             /\ run' = run]_vars
    /\ [](Committed => ENABLED ApiExit)
    /\ [](run.phase = "deleting" => InFlight(run) # {})
    /\ [](run.phase = "invalidating" =>
             /\ Calls(run) = run.ids
             /\ \A k \in DOMAIN run.status : run.status[k] \in {"fulfilled", "rejected"}
             /\ run.evicted = {run.ids[k] : k \in {j \in DOMAIN run.status :
                                                      run.status[j] = "fulfilled"}}
             /\ run.refreshes = 1)
    /\ [][run.phase # "idle" /\ run'.phase = "idle" =>
             /\ run.phase = "invalidating"
             /\ toast' = confirmToast(run.succeeded, run.failed)
             /\ toast'.title # "none"]_vars

C18_Witness ==
    /\ ~selectionState.selectionMode
    /\ ~bulkDeleteDialogOpen
    /\ run.phase = "invalidating"
    /\ Len(run.batches) = 3
    /\ run.evicted # {}
    /\ run.failed # <<>>

\* C19: a step the checkbox of group dir can take keeps selectionMode and
\* changes the selection by the selectable (present, inactive) ids of that
\* group only: they are all removed when all of them were selected and all
\* added otherwise; no other id enters or leaves the selection.
C19_GroupToggleFrame ==
    [][\A dir \in 1..NumDirs :
          GroupToggle(dir) =>
             LET group == {id \in Ids : /\ sessions[id] = "inactive"
                                        /\ DirOf(id) = dir}
             IN  /\ selectionState'.selectionMode = selectionState.selectionMode
                 /\ selectionState'.selectedIds =
                       IF group \subseteq selectionState.selectedIds
                       THEN selectionState.selectedIds \ group
                       ELSE selectionState.selectedIds \cup group]_vars

C19_Witness ==
    /\ ENABLED GroupToggle(1)
    /\ groupAllSelected(1)
    /\ groupSelectedCount(1) = 2
    /\ groupSelectedCount(2) = 1

\* C20: each of the seven operations, invoked while the api or the session id
\* is null, rejects with 'Session unavailable' having issued no remote call,
\* invalidated no query, removed no cache entry and cleared no message
\* window; and a mutation that ended so never has any of these.
C20_UnavailableRejects ==
    /\ [][\A kind \in Kinds : \A arg \in Args(kind) :
             (api = "null" \/ mutation.sessionId = "null") /\ Mutate(kind, arg) =>
                /\ mutation'.kind = kind
                /\ mutation'.phase = "error"
                /\ mutation'.error = "Session unavailable"
                /\ mutation'.calls = <<>>
                /\ mutation'.invalidated = <<>>
                /\ ~mutation'.removed /\ ~mutation'.cleared]_vars
    /\ [](mutation.error = "Session unavailable" =>
             /\ mutation.phase = "error"
             /\ mutation.calls = <<>>
             /\ mutation.invalidated = <<>>
             /\ ~mutation.removed /\ ~mutation.cleared)

C20_Witness ==
    /\ api = "present"
    /\ mutation.sessionId = "null"
    /\ mutation.kind = "delete"
    /\ mutation.phase = "error"
    /\ mutation.error = "Session unavailable"

\* The latest mutation issued its remote call and the call has settled.
Settled == mutation.phase \in {"success", "error"} /\ mutation.calls # <<>>

\* The session's cache entry was invalidated or removed, and the session
\* collection was invalidated.
Invalidated ==
    /\ \E k \in DOMAIN mutation.invalidated : mutation.invalidated[k] = "sessions"
    /\ \/ mutation.removed
       \/ \E k \in DOMAIN mutation.invalidated : mutation.invalidated[k] = "session"

\* C21 as stated: once a mutation that reached the remote API has settled,
\* fulfilled or rejected, the session's cache entry has been invalidated or
\* removed and the session collection refreshed.
C21_InvalidatedAfterEveryCall == Settled => Invalidated

\* C21, amended: a mutation whose remote call fulfilled has invalidated the
\* session's entry and then the collection (delete: removed the entry,
\* cleared the message window and invalidated the collection); a mutation
\* that failed, in its remote call or before it, has invalidated, removed and
\* cleared nothing.
C21_InvalidatedOnSuccessOnly ==
    /\ mutation.phase = "success" =>
          /\ mutation.calls = <<[op |-> mutation.kind, sessionId |-> "s"]>>
          /\ IF mutation.kind = "delete"
             THEN /\ mutation.removed /\ mutation.cleared
                  /\ mutation.invalidated = <<"sessions">>
             ELSE /\ ~mutation.removed /\ ~mutation.cleared
                  /\ mutation.invalidated = <<"session", "sessions">>
    /\ mutation.phase = "error" =>
          /\ mutation.invalidated = <<>>
          /\ ~mutation.removed /\ ~mutation.cleared

C21_Witness ==
    /\ mutation.kind = "rename"
    /\ mutation.phase = "success"
    /\ mutation.invalidated = <<"session", "sessions">>

\* The ids of the positions of xs holding status st, in the order of xs.
RECURSIVE IdsWithStatus(_, _, _)
IdsWithStatus(ids, status, st) ==
    IF ids = <<>> THEN <<>>
    ELSE (IF Head(status) = st THEN <<Head(ids)>> ELSE <<>>)
         \o IdsWithStatus(Tail(ids), Tail(status), st)

\* Position k settled before position j.
SettledBefore(k, j) ==
    \E a, b \in DOMAIN output.order :
        a < b /\ output.order[a] = k /\ output.order[b] = j

\* Id x stands before id y in the list xs.
Precedes(xs, x, y) ==
    \E a, b \in DOMAIN xs : a < b /\ xs[a] = x /\ xs[b] = y

\* C22: when the run returns, succeeded is the input list restricted to the
\* ids whose call fulfilled and the ids of failed are the input list
\* restricted to the ids whose call rejected, in whatever order the calls
\* settled; a one-chunk input whose calls all fulfilled comes back as it was.
C22_ResultsInInputOrder ==
    run.phase = "invalidating" =>
        /\ Len(output.order) = Len(run.ids)
        /\ run.succeeded = IdsWithStatus(run.ids, run.status, "fulfilled")
        /\ [k \in DOMAIN run.failed |-> run.failed[k].id]
              = IdsWithStatus(run.ids, run.status, "rejected")
        /\ (\A k \in DOMAIN run.status : run.status[k] = "fulfilled")
              => run.succeeded = run.ids

C22_Witness ==
    /\ run.phase = "invalidating"
    /\ run.ids = <<1, 2, 3>>
    /\ output.order = <<3, 1, 2>>
    /\ run.succeeded = <<1, 2, 3>>

\* Positions j and k lie in the same chunk and their calls had the same outcome.
SameChunkSameOutcome(j, k) ==
    /\ (j - 1) \div limit = (k - 1) \div limit
    /\ run.status[j] = run.status[k]

ResultIds ==
    run.succeeded \o [k \in DOMAIN run.failed |-> run.failed[k].id]

\* C23 as stated: within a chunk, of two ids with the same outcome the one
\* whose call settled first stands first in its list.
C23_CompletionOrder ==
    run.phase = "invalidating" =>
        \A j, k \in DOMAIN run.ids :
            (j # k /\ SameChunkSameOutcome(j, k) /\ SettledBefore(j, k))
                => Precedes(ResultIds, run.ids[j], run.ids[k])

\* C23, amended: within a chunk, of two ids with the same outcome the one
\* standing first in the input stands first in its list, also when its call
\* settled after the other's.
C23_ChunkInputOrder ==
    run.phase = "invalidating" =>
        \A j, k \in DOMAIN run.ids :
            (j < k /\ SameChunkSameOutcome(j, k))
                => /\ Precedes(ResultIds, run.ids[j], run.ids[k])
                   /\ SettledBefore(j, k) \/ SettledBefore(k, j)

C23_Witness ==
    /\ run.phase = "invalidating"
    /\ output.order = <<2, 1, 5, 4, 3, 6>>
    /\ run.succeeded = <<1, 2, 6>>
    /\ [k \in DOMAIN run.failed |-> run.failed[k].id] = <<3, 4, 5>>

\* C24 as stated: for all updatedAt values a < b, on either side of the
\* threshold, normalize(a) <= normalize(b).
C24_Monotonic ==
    output.kind = "normalized" /\ LessThan(input.a, input.b)
        => ~LessThan(output.b, output.a)

\* C24, amended: for a < b on the same side of the threshold (both given in
\* seconds or both in milliseconds) normalize(a) < normalize(b); for b at or
\* above the threshold and a below it, a < b holds and the normalized values
\* are in the order of the instants b and 1000 * a.
C24_MonotonicPerUnit ==
    output.kind = "normalized" /\ LessThan(input.a, input.b) =>
        /\ (LessThan(input.a, Threshold) <=> LessThan(input.b, Threshold))
              => LessThan(output.a, output.b)
        /\ (LessThan(input.a, Threshold) /\ ~LessThan(input.b, Threshold))
              => (LessThan(output.a, output.b) <=> LessThan(Times1000(input.a), input.b))

C24_Witness ==
    /\ output.kind = "normalized"
    /\ input.a = Number(1700, 0)
    /\ input.b = Number(999999, 999999)
    /\ output.a = Number(1700000, 0)
    /\ output.b = Number(999999999, 999000)

\* C25: a toggle input of a session row takes a step only in selection mode
\* and only for a session that is not active, and that step flips the
\* membership of exactly that id, leaving every other id and selectionMode as
\* they were; while selectionMode is false, or for an active session, the
\* input can take no step at all; for a listed inactive session in selection
\* mode (no effect waiting to be flushed) it can.
C25_ToggleGuarded ==
    /\ [][\A id \in Ids : ToggleSession(id) =>
             /\ selectionState.selectionMode
             /\ sessions[id] # "active"
             /\ selectionState'.selectionMode = selectionState.selectionMode
             /\ selectionState'.selectedIds =
                    IF id \in selectionState.selectedIds
                    THEN selectionState.selectedIds \ {id}
                    ELSE selectionState.selectedIds \cup {id}]_vars
    /\ [](\A id \in Ids :
             ~selectionState.selectionMode \/ sessions[id] = "active"
                 => ~ENABLED ToggleSession(id))
    /\ [](\A id \in Ids :
             Committed /\ selectionState.selectionMode /\ sessions[id] = "inactive"
                 => ENABLED ToggleSession(id))

C25_Witness ==
    /\ selectionState = [selectionMode |-> TRUE, selectedIds |-> {1}]
    /\ sessions[1] = "inactive"
    /\ sessions[2] = "active"
    /\ ENABLED ToggleSession(1)
    /\ ~ENABLED ToggleSession(2)

\* C26: entering selection mode (header button or selectionApiRef) from a state
\* with selectionMode false yields selectionMode true with nothing selected;
\* entering when selectionMode is already true changes neither selectionMode
\* nor selectedIds.
C26_EnterFromIdleIsEmpty ==
    [][EnterButton \/ ApiEnter =>
          IF selectionState.selectionMode
          THEN selectionState' = selectionState
          ELSE selectionState' = [selectionMode |-> TRUE, selectedIds |-> {}]]_vars

\* C27: after SELECT_ALL(ids) and after SET_SELECTION(ids) alike, selectedIds
\* is exactly the set of the distinct elements of ids, whatever was selected
\* before; after CLEAR_SELECTION it is empty; none of the three changes
\* selectionMode; TOGGLE_SESSION(id) dispatched twice leaves selectedIds (and
\* selectionMode) as before the first.
C27_ReducerSetOperations ==
    output.kind = "reduced" /\ output.actions # <<>> =>
        LET first == output.actions[1]
        IN  /\ first.type \in {"SELECT_ALL", "SET_SELECTION"} =>
                selectionState =
                    [selectionMode |-> output.before.selectionMode,
                     selectedIds |-> {id \in Ids :
                         \E k \in DOMAIN first.sessionIds : first.sessionIds[k] = id}]
            /\ first.type = "CLEAR_SELECTION" =>
                selectionState =
                    [selectionMode |-> output.before.selectionMode, selectedIds |-> {}]
            /\ (/\ Len(output.actions) = 2
                /\ first.type = "TOGGLE_SESSION"
                /\ output.actions[2] = first) =>
                selectionState = output.before

C27_Witness ==
    /\ output.kind = "reduced"
    /\ output.before = [selectionMode |-> TRUE, selectedIds |-> {2, 3}]
    /\ output.actions = <<SelectAllAction(<<1, 2, 1>>)>>
    /\ selectionState = [selectionMode |-> TRUE, selectedIds |-> {1, 2}]

\* C28: a listed group without an override is collapsed exactly when none of
\* its sessions is active, and one with an override shows the override; a
\* click on a group header sets that group's override to the negation of what
\* was shown and leaves the other overrides alone; no step that changes the
\* selection state changes the override map; once the effects of a change of
\* the session collection are flushed, every key of the override map is the
\* directory of a current group.
C28_CollapseOverrides ==
    /\ [](\A dir \in groupDirectories :
             LET active == {id \in Ids : sessions[id] = "active" /\ DirOf(id) = dir}
             IN  IF dir \in DOMAIN collapseOverrides
                 THEN isGroupCollapsed(dir) = collapseOverrides[dir]
                 ELSE isGroupCollapsed(dir) = (active = {}))
    /\ [][\A dir \in 1..NumDirs : GroupHeaderClick(dir) =>
             LET active == {id \in Ids : sessions[id] = "active" /\ DirOf(id) = dir}
                 shown == IF dir \in DOMAIN collapseOverrides
                          THEN collapseOverrides[dir] ELSE active = {}
             IN  /\ DOMAIN collapseOverrides' = DOMAIN collapseOverrides \cup {dir}
                 /\ collapseOverrides'[dir] = ~shown
                 /\ \A other \in DOMAIN collapseOverrides \ {dir} :
                        collapseOverrides'[other] = collapseOverrides[other]]_vars
    /\ [][selectionState' # selectionState => collapseOverrides' = collapseOverrides]_vars
    /\ [](~pruneEffectPending => DOMAIN collapseOverrides \subseteq groupDirectories)

C28_Witness ==
    /\ selectionState.selectionMode
    /\ selectionState.selectedIds = {3}
    /\ ~pruneEffectPending
    /\ groupDirectories = {1}
    /\ sessions[1] = "active"
    /\ collapseOverrides = [directory \in {1} |-> TRUE]
    /\ isGroupCollapsed(1)

\* C29: a setPermissionMode whose session has a known flavor for which the
\* policy disallows the mode ends rejected, with the invalid-mode error when
\* the session is available, and with no remote call; a remote call is seen
\* only for an unknown flavor or an allowed mode; and with an unknown flavor
\* or an allowed mode the call api.setPermissionMode(sessionId, mode) is
\* issued unless the session was unavailable.
C29_PolicyBeforeRemoteCall ==
    mutation.kind = "permission" =>
        LET disallowed == mutation.agentFlavor = "known" /\ mutation.arg = "disallowed"
        IN  /\ disallowed =>
                /\ mutation.phase = "error"
                /\ mutation.calls = <<>>
                /\ mutation.error \in {"Session unavailable",
                                       "Invalid permission mode for session flavor"}
                /\ mutation.sessionId # "null" /\ mutation.error # "Session unavailable"
                       => mutation.error = "Invalid permission mode for session flavor"
            /\ mutation.calls # <<>> => ~disallowed
            /\ ~disallowed /\ mutation.error # "Session unavailable" =>
                mutation.calls = <<[op |-> "permission", sessionId |-> "s"]>>

C29_Witness ==
    /\ api = "present"
    /\ mutation.kind = "permission"
    /\ mutation.sessionId = "s"
    /\ mutation.agentFlavor = "known"
    /\ mutation.arg = "disallowed"
    /\ mutation.phase = "error"
    /\ mutation.error = "Invalid permission mode for session flavor"
    /\ mutation.calls = <<>>

\* C30: while a confirmed run is in flight and the dialog is open, nothing in
\* the controller state keeps the confirm handler from running again; doing
\* so starts a second run over the ids selected at that moment and leaves the
\* first run as it is; each run's result handler, when its run settles, is
\* applied to the selection state as it then is (all succeeded: mode off and
\* nothing selected; all failed: unchanged; mixed: exactly the failed ids,
\* mode unchanged), so the two are applied in settlement order.
C30_DoubleSubmit ==
    /\ [](Committed /\ bulkDeleteDialogOpen /\ run.phase # "idle"
             /\ secondRun.phase = "idle" => ENABLED ConfirmAgain)
    /\ [][ConfirmAgain =>
             /\ run' = run
             /\ secondRun'.phase # "idle"
             /\ Range(secondRun'.ids) = selectionState.selectedIds
             /\ Len(secondRun'.ids) = Cardinality(selectionState.selectedIds)]_vars
    /\ [][BulkSettled \/ BulkSettledSecond =>
             LET r == IF BulkSettled THEN run ELSE secondRun
             IN  selectionState' =
                    IF r.failed = <<>>
                    THEN [selectionMode |-> FALSE, selectedIds |-> {}]
                    ELSE IF r.succeeded = <<>> THEN selectionState
                    ELSE [selectionMode |-> selectionState.selectionMode,
                          selectedIds |-> FailedIds(r)]]_vars

\* The same id has a delete call pending in both runs, the second run started
\* over a selection that had changed since the first.
C30_Witness ==
    /\ run.ids = <<1, 2, 3>>
    /\ secondRun.ids = <<1, 3>>
    /\ run.status[1] = "pending"
    /\ secondRun.status[1] = "pending"
    /\ run.status[2] = "rejected"

\* C31 as stated: once a bulk delete is confirmed, whatever the id list, the
\* orchestrator eventually returns a result that classifies every input id and
\* the controller eventually closes the dialog; an empty list is returned
\* with both lists empty and no call issued.
C31_Terminates ==
    /\ (run # IdleRun) ~>
           (run.phase = "invalidating"
               /\ Len(run.succeeded) + Len(run.failed) = Len(run.ids))
    /\ (run # IdleRun) ~> ~bulkDeleteDialogOpen
    /\ [](run.phase # "idle" /\ run.ids = <<>> =>
             run.phase = "invalidating" /\ run.succeeded = <<>> /\ run.failed = <<>>
                 /\ run.batches = <<>>)

\* C31, amended: once a bulk delete is confirmed with an api present, whatever
\* the id list, the orchestrator eventually returns a result that classifies
\* every input id and the controller eventually closes the dialog; an empty
\* list is returned with both lists empty and no call issued.
C31_TerminatesWithApi ==
    /\ (run.phase # "idle") ~>
           (run.phase = "invalidating"
               /\ Len(run.succeeded) + Len(run.failed) = Len(run.ids))
    /\ (run.phase # "idle") ~> ~bulkDeleteDialogOpen
    /\ [](run.phase # "idle" /\ run.ids = <<>> =>
             run.phase = "invalidating" /\ run.succeeded = <<>> /\ run.failed = <<>>
                 /\ run.batches = <<>>)

C31_Witness ==
    /\ run.phase = "invalidating"
    /\ Len(run.ids) = 6
    /\ Len(run.batches) = 2
    /\ Len(run.succeeded) = 4
    /\ Len(run.failed) = 2

\* C32: whenever the confirm handler runs, the selectedIds it reads is not
\* empty and each id in it is the id of a non-active session present in the
\* latest session collection.
C32_ConfirmedAreSelectable ==
    [][ConfirmBulkDelete =>
          /\ selectionState.selectedIds # {}
          /\ \A id \in selectionState.selectedIds :
                id \in DOMAIN sessions /\ sessions[id] = "inactive"]_vars

\* C33: whenever every selected id is selectable, isAllSelected holds exactly
\* when some session is selectable and the selection is the set of all
\* selectable ids, and isIndeterminate exactly when the selection is a
\* non-empty proper subset of it; a step of the header select-all checkbox
\* keeps selectionMode and leaves exactly the selectable ids selected when not
\* all of them were, and nothing selected when all of them were (so from an
\* empty selection the first step selects all and the next one clears).
C33_SelectAllToggle ==
    /\ [](LET selectable == {id \in Ids : sessions[id] = "inactive"}
          IN  selectionState.selectedIds \subseteq selectable =>
                 /\ isAllSelected <=>
                       (selectable # {} /\ selectionState.selectedIds = selectable)
                 /\ isIndeterminate <=>
                       (/\ selectionState.selectedIds # {}
                        /\ selectionState.selectedIds # selectable))
    /\ [][handleSelectAll =>
             LET selectable == {id \in Ids : sessions[id] = "inactive"}
             IN  /\ selectionState'.selectionMode = selectionState.selectionMode
                 /\ selectionState'.selectedIds =
                        IF selectionState.selectedIds = selectable THEN {} ELSE selectable
                 /\ selectionState.selectedIds = {} => isAllSelected']_vars

C33_Witness ==
    /\ Committed
    /\ selectionState.selectionMode
    /\ sessions = <<"inactive", "active", "inactive">>
    /\ selectionState.selectedIds = {1, 3}
    /\ isAllSelected
    /\ ~isIndeterminate
    /\ ENABLED handleSelectAll

====
